---- MODULE Spec2Model ----
(***************************************************************************)
(* State-machine model of the 6-phase workflow server:                     *)
(*   src/src/workflow/phases.ts            transition table                *)
(*   src/src/workflow/WorkflowManager.ts   workflow state machine          *)
(*   src/unnamed/part_002 (workflow/tools) tool handlers (facade)          *)
(*   src/src/logger/Logger.ts              logger: counter, console, file  *)
(*   src/src/index.ts                      server: request handlers        *)
(*   src/src/types/logger.ts (from line 65) the workflow types and their   *)
(*                                         zod schemas (types/workflow.ts) *)
(***************************************************************************)
EXTENDS Integers, Sequences, FiniteSets, TLC

VARIABLES
    currentWorkflow,   \* WorkflowManager.currentWorkflow: null or a WorkflowState
    clock,             \* the instant new Date() returns (milliseconds)
    sequenceNumber,    \* Logger.sequenceNumber
    logLevel,          \* Logger.logLevel, fixed at construction
    lastCall,          \* what the last call did: operation, outcome, error thrown
    consoleOutput,     \* Logger.consoleOutput
    fileOutput,        \* Logger.fileOutput
    logStream,         \* Logger.logStream: the WriteStream, or undefined
    writeStream,       \* the WriteStream created at construction: its state and
                       \* the lines it has accepted and not yet written
    logFile,           \* the lines of the log file, as they are on disk
    console,           \* the entries written to console.error/warn and stdout
    inFlight           \* the tools/call handler runs the transport has started
                       \* and that have not returned: where each one stands

\* the logger's sinks
sinks == <<consoleOutput, fileOutput, logStream, writeStream, logFile, console>>

vars == <<currentWorkflow, clock, sequenceNumber, logLevel, lastCall,
          consoleOutput, fileOutput, logStream, writeStream, logFile, console,
          inFlight>>

----------------------------------------------------------------------------
(* Bounds of the model *)

MaxHistory == 2
MaxClock == 1
MaxSeq == 8
MaxSeqTools == 18
MaxHistoryPhases == 5
MaxHistoryMismatch == 5
MaxHistoryDefault == 6
MaxHistoryLoop == 9
MaxHistoryTools == 5
MaxHistoryReads == 4
MaxEntries == 3
MaxSeqServer == 8
MaxHistoryServer == 2
MaxHistoryBranch == 5
MaxHistoryOverlap == 3
MaxHistoryProgress == 8
MaxSeqOverlap == 16

----------------------------------------------------------------------------
(* types/workflow.ts: the closed enumerations                              *)

ISSUE_START == "issue_start"
IMPLEMENTATION == "implementation"
QUALITY_CHECK == "quality_check"
PR_CREATION == "pr_creation"
FIX == "fix"
COMPLETION == "completion"

Phases == {ISSUE_START, IMPLEMENTATION, QUALITY_CHECK, PR_CREATION, FIX, COMPLETION}

Statuses == {"completed", "failed", "skipped"}

\* an optional field that is not given
undefined == "undefined"

\* currentWorkflow when no workflow is active
null == [null |-> TRUE]

\* values outside the enumerations, and a completedAt that is no timestamp
BadEnum == "bogus"
ValidStamp == "2024-01-01T00:00:00.000Z"
BadStamp == "not-a-date"

----------------------------------------------------------------------------
(* phases.ts *)

\* mutant: completion leads back to issue_start
phaseTransitions_completionRestarts ==
    [p \in Phases |->
        CASE p = ISSUE_START -> <<IMPLEMENTATION>>
          [] p = IMPLEMENTATION -> <<QUALITY_CHECK>>
          [] p = QUALITY_CHECK -> <<PR_CREATION>>
          [] p = PR_CREATION -> <<FIX, COMPLETION>>
          [] p = FIX -> <<QUALITY_CHECK>>
          [] p = COMPLETION -> <<ISSUE_START>>]

phaseTransitions ==
    [p \in Phases |->
        CASE p = ISSUE_START -> <<IMPLEMENTATION>>
          [] p = IMPLEMENTATION -> <<QUALITY_CHECK>>
          [] p = QUALITY_CHECK -> <<PR_CREATION>>
          [] p = PR_CREATION -> <<FIX, COMPLETION>>
          [] p = FIX -> <<QUALITY_CHECK>>
          [] p = COMPLETION -> <<>>]

\* the property names every object literal inherits from Object.prototype
\* (those the inputs of the model use)
ObjectPrototype ==
    [constructor |-> "function", toString |-> "function",
     hasOwnProperty |-> "function", valueOf |-> "function", __proto__ |-> "object"]

\* obj[key] of a Record<string, string[]> object literal: an own property, a
\* property found on the prototype chain, or undefined.  A value is given by
\* its type and, for an array, its items.
Get(obj, key) ==
    IF key \in DOMAIN obj
    THEN [type |-> "array", items |-> obj[key]]
    ELSE IF key \in DOMAIN ObjectPrototype
    THEN [type |-> ObjectPrototype[key], items |-> <<>>]
    ELSE [type |-> "undefined", items |-> <<>>]

\* phaseTransitions[currentPhase] ?? []
getValidNextPhases(currentPhase) ==
    LET found == Get(phaseTransitions, currentPhase)
    IN IF found.type = "undefined"
       THEN [type |-> "array", items |-> <<>>]
       ELSE found

\* Array.prototype.includes
includes(xs, x) == \E i \in 1..Len(xs) : xs[i] = x

\* calling a method the value does not have
TypeError == <<"TypeError: validNextPhases.includes is not a function">>

\* validNextPhases.includes(to): the boolean returned, or the error thrown
isValidPhaseTransition(from, to) ==
    LET validNextPhases == getValidNextPhases(from)
    IN IF validNextPhases.type # "array"
       THEN [error |-> TypeError, value |-> FALSE]
       ELSE [error |-> <<>>, value |-> includes(validNextPhases.items, to)]

----------------------------------------------------------------------------
(* Logger.ts: level filter and sequence counter *)

LogLevels == <<"debug", "info", "warn", "error">>

indexOf(seq, x) ==
    IF \E i \in 1..Len(seq) : seq[i] = x
    THEN (CHOOSE i \in 1..Len(seq) : seq[i] = x /\ \A j \in 1..(i-1) : seq[j] # x) - 1
    ELSE -1

\* mutant: nothing is filtered
shouldLog_allowsAll(configured, level) == TRUE

\* mutant: the comparison is turned round
shouldLog_inverted(configured, level) ==
    indexOf(LogLevels, level) <= indexOf(LogLevels, configured)

shouldLog(configured, level) ==
    indexOf(LogLevels, level) >= indexOf(LogLevels, configured)

\* mutant: the counter is advanced before the filter is consulted
log_countsFiltered(seq, configured, level) == seq + 1

\* Logger.log: the sequence counter after one call at `level`
log(seq, configured, level) ==
    IF ~shouldLog(configured, level) THEN seq ELSE seq + 1

\* a log call: its level and what it carries (a message, a protocol message
\* of a given type and method, a workflow record)
NoProtocol == [type |-> "none", method |-> "none"]

Message(level) == [level |-> level, kind |-> "message", protocol |-> NoProtocol]

Messages(levels) == [i \in 1..Len(levels) |-> Message(levels[i])]

Levels(calls) == [i \in 1..Len(calls) |-> calls[i].level]

\* Logger.log called for each of `calls` in turn: the ComprehensiveLog entries
\* built, the first entry getting the counter value seq
RECURSIVE entriesOf(_, _, _)
entriesOf(seq, configured, calls) ==
    IF calls = <<>> THEN <<>>
    ELSE IF ~shouldLog(configured, Head(calls).level)
    THEN entriesOf(seq, configured, Tail(calls))
    ELSE <<[sequenceNumber |-> seq,
            level |-> Head(calls).level,
            kind |-> Head(calls).kind,
            protocol |-> Head(calls).protocol]>>
         \o entriesOf(seq + 1, configured, Tail(calls))

\* where the console output of an entry goes
consoleStream(level) ==
    CASE level = "error" -> "console.error"
      [] level = "warn" -> "console.warn"
      [] OTHER -> "process.stdout"

\* the entry as it is written to the console, with the stream it is written to
ConsoleLine(entry) ==
    [sequenceNumber |-> entry.sequenceNumber, level |-> entry.level,
     kind |-> entry.kind, protocol |-> entry.protocol,
     stream |-> consoleStream(entry.level)]

\* mutant: the console is written whatever consoleOutput says
consoleWrites_always(enabled, entries) ==
    [i \in 1..Len(entries) |-> ConsoleLine(entries[i])]

\* what `if (this.consoleOutput) { ... }` writes for the entries built
consoleWrites(enabled, entries) ==
    IF enabled
    THEN [i \in 1..Len(entries) |-> ConsoleLine(entries[i])]
    ELSE <<>>

\* JSON.stringify(log) + '\n'
Line(entry) == [json |-> entry, end |-> "\n"]

Lines(entries) == [i \in 1..Len(entries) |-> Line(entries[i])]

\* no WriteStream was created
NoStream == [state |-> "none", buffer |-> <<>>]

\* a WriteStream that createWriteStream has just returned
NewStream == [state |-> "open", buffer |-> <<>>]

\* mutant: the newest lines are put in front of those waiting
write_prepends(stream, lines) ==
    IF stream.state = "open"
    THEN [stream EXCEPT !.buffer = lines \o @]
    ELSE stream

\* WriteStream.write for each of `lines`: a stream that is open accepts them,
\* a stream that was destroyed by an error drops them (and does not throw)
write(stream, lines) ==
    IF stream.state = "open"
    THEN [stream EXCEPT !.buffer = @ \o lines]
    ELSE stream

\* WriteStream.end: the stream finishes once it has written what it accepted
end(stream) ==
    IF stream.state = "open"
    THEN [stream EXCEPT !.state = "ending"]
    ELSE stream

\* calling a method of undefined
EndOfUndefined == <<"TypeError: Cannot read properties of undefined (reading 'end')">>

\* mutant: the stream is ended without testing that there is one
close_endsUnconditionally(ref, stream) ==
    IF ref # undefined
    THEN [logStream |-> undefined, writeStream |-> end(stream), error |-> <<>>]
    ELSE [logStream |-> ref, writeStream |-> stream, error |-> EndOfUndefined]

\* mutant: the stream is ended and the logger keeps its reference to it
close_keepsReference(ref, stream) ==
    IF ref # undefined
    THEN [logStream |-> ref, writeStream |-> end(stream), error |-> <<>>]
    ELSE [logStream |-> ref, writeStream |-> stream, error |-> <<>>]

\* Logger.close: the logger's reference, the stream, and the error thrown
close(ref, stream) ==
    IF ref # undefined
    THEN [logStream |-> undefined, writeStream |-> end(stream), error |-> <<>>]
    ELSE [logStream |-> ref, writeStream |-> stream, error |-> <<>>]

\* mutant: the handler reports the error and leaves the logger as it is
onStreamError_onlyReports(file, ref) == [fileOutput |-> file, logStream |-> ref]

\* the listener of the stream's 'error' event
onStreamError(file, ref) == [fileOutput |-> FALSE, logStream |-> undefined]

\* the counter after the calls `levels` (a sequence of levels), in order
RECURSIVE logAll(_, _, _)
logAll(seq, configured, levels) ==
    IF levels = <<>> THEN seq
    ELSE logAll(log(seq, configured, Head(levels)), configured, Tail(levels))

----------------------------------------------------------------------------
(* types/workflow.ts: the zod schemas; each is the condition under which    *)
(* parse returns, and parse throws a ZodError otherwise                    *)

\* z.string().datetime(): ISO 8601 in UTC ("Z"), no offset, any precision
datetime(s) == s \in {ValidStamp, "2024-01-01T00:00:00Z"}

\* z.string().min(1)
min1(s) == s # undefined /\ s # ""

\* the keys of z.object that are not .optional()
PhaseResultRequired ==
    {"phaseName", "status", "workingFiles", "completedTasks", "completedAt"}

\* mutant: completedAt is any string
PhaseResultSchemaOk_anyString(phaseResult) ==
    /\ PhaseResultRequired \subseteq DOMAIN phaseResult
    /\ phaseResult.phaseName \in Phases
    /\ phaseResult.status \in Statuses
    /\ "nextPhase" \in DOMAIN phaseResult
          => phaseResult.nextPhase \in Phases \cup {undefined}

PhaseResultSchemaOk(phaseResult) ==
    /\ PhaseResultRequired \subseteq DOMAIN phaseResult
    /\ phaseResult.phaseName \in Phases
    /\ phaseResult.status \in Statuses
    /\ "nextPhase" \in DOMAIN phaseResult
          => phaseResult.nextPhase \in Phases \cup {undefined}
    /\ datetime(phaseResult.completedAt)

WorkflowStateSchemaOk(workflow) ==
    /\ min1(workflow.issueNumber)
    /\ workflow.currentPhase \in Phases
    /\ \A i \in 1..Len(workflow.phaseHistory) :
          PhaseResultSchemaOk(workflow.phaseHistory[i])

StartWorkflowSchemaOk(args) ==
    "issueNumber" \in DOMAIN args /\ min1(args.issueNumber)

CompletePhaseSchemaOk(args) ==
    "phaseResult" \in DOMAIN args /\ PhaseResultSchemaOk(args.phaseResult)

ZodError == <<"ZodError">>
NoError == <<>>

----------------------------------------------------------------------------
(* WorkflowManager.ts *)

\* Array.from(new Set(xs)): first occurrences, in order
RECURSIVE uniq(_, _)
uniq(xs, seen) ==
    IF xs = <<>> THEN <<>>
    ELSE IF Head(xs) \in seen THEN uniq(Tail(xs), seen)
         ELSE <<Head(xs)>> \o uniq(Tail(xs), seen \cup {Head(xs)})

\* mutant: the two lists are concatenated without the Set
ArrayFromSet_keepsDuplicates(xs) == xs

ArrayFromSet(xs) == uniq(xs, {})

\* mutant: without a workflow every phase can be entered
canTransitionTo_idleAllowsAny(workflow, targetPhase) ==
    IF workflow = null
    THEN TRUE
    ELSE isValidPhaseTransition(workflow.currentPhase, targetPhase).value

canTransitionTo(workflow, targetPhase) ==
    IF workflow = null
    THEN targetPhase = ISSUE_START
    ELSE isValidPhaseTransition(workflow.currentPhase, targetPhase).value

UnknownPhase == "Unknown phase"

\* mutant: completing completion starts the progression again
defaultProgression_completionRestarts(phaseResult) ==
    CASE phaseResult.phaseName = ISSUE_START -> IMPLEMENTATION
      [] phaseResult.phaseName = IMPLEMENTATION -> QUALITY_CHECK
      [] phaseResult.phaseName = QUALITY_CHECK -> PR_CREATION
      [] phaseResult.phaseName = PR_CREATION ->
           IF phaseResult.nextPhase # undefined
           THEN phaseResult.nextPhase
           ELSE COMPLETION
      [] phaseResult.phaseName = FIX -> QUALITY_CHECK
      [] phaseResult.phaseName = COMPLETION -> ISSUE_START
      [] OTHER -> UnknownPhase

\* mutant: after a fix the workflow goes straight back to pr_creation
defaultProgression_fixSkipsQualityCheck(phaseResult) ==
    CASE phaseResult.phaseName = ISSUE_START -> IMPLEMENTATION
      [] phaseResult.phaseName = IMPLEMENTATION -> QUALITY_CHECK
      [] phaseResult.phaseName = QUALITY_CHECK -> PR_CREATION
      [] phaseResult.phaseName = PR_CREATION ->
           IF phaseResult.nextPhase # undefined
           THEN phaseResult.nextPhase
           ELSE COMPLETION
      [] phaseResult.phaseName = FIX -> PR_CREATION
      [] phaseResult.phaseName = COMPLETION -> COMPLETION
      [] OTHER -> UnknownPhase

\* mutant: after a fix the workflow stays in fix
defaultProgression_fixStaysInFix(phaseResult) ==
    CASE phaseResult.phaseName = ISSUE_START -> IMPLEMENTATION
      [] phaseResult.phaseName = IMPLEMENTATION -> QUALITY_CHECK
      [] phaseResult.phaseName = QUALITY_CHECK -> PR_CREATION
      [] phaseResult.phaseName = PR_CREATION ->
           IF phaseResult.nextPhase # undefined
           THEN phaseResult.nextPhase
           ELSE COMPLETION
      [] phaseResult.phaseName = FIX -> FIX
      [] phaseResult.phaseName = COMPLETION -> COMPLETION
      [] OTHER -> UnknownPhase

\* mutant: a pr_creation that failed is sent to fix
defaultProgression_failedGoesToFix(phaseResult) ==
    CASE phaseResult.phaseName = ISSUE_START -> IMPLEMENTATION
      [] phaseResult.phaseName = IMPLEMENTATION -> QUALITY_CHECK
      [] phaseResult.phaseName = QUALITY_CHECK -> PR_CREATION
      [] phaseResult.phaseName = PR_CREATION ->
           IF phaseResult.nextPhase # undefined
           THEN phaseResult.nextPhase
           ELSE IF phaseResult.status = "failed" THEN FIX ELSE COMPLETION
      [] phaseResult.phaseName = FIX -> QUALITY_CHECK
      [] phaseResult.phaseName = COMPLETION -> COMPLETION
      [] OTHER -> UnknownPhase

\* the switch of determineNextPhase ("default phase progression logic")
defaultProgression(phaseResult) ==
    CASE phaseResult.phaseName = ISSUE_START -> IMPLEMENTATION
      [] phaseResult.phaseName = IMPLEMENTATION -> QUALITY_CHECK
      [] phaseResult.phaseName = QUALITY_CHECK -> PR_CREATION
      [] phaseResult.phaseName = PR_CREATION ->
           \* phaseResult.nextPhase ?? WorkflowPhase.COMPLETION
           IF phaseResult.nextPhase # undefined
           THEN phaseResult.nextPhase
           ELSE COMPLETION
      [] phaseResult.phaseName = FIX -> QUALITY_CHECK
      [] phaseResult.phaseName = COMPLETION -> COMPLETION
      [] OTHER -> UnknownPhase

\* mutant: a nextPhase that is given is always taken
determineNextPhase_takesAnyOverride(workflow, phaseResult) ==
    IF phaseResult.nextPhase # undefined
    THEN phaseResult.nextPhase
    ELSE defaultProgression(phaseResult)

determineNextPhase(workflow, phaseResult) ==
    IF phaseResult.nextPhase # undefined /\ canTransitionTo(workflow, phaseResult.nextPhase)
    THEN phaseResult.nextPhase
    ELSE defaultProgression(phaseResult)

AlreadyActiveError(workflow) ==
    <<"Workflow already in progress for issue ", workflow.issueNumber,
      ". Complete or reset current workflow first.">>

NoActiveWorkflowError == <<"No active workflow to complete phase for">>

\* mutant: the message names the current phase twice
PhaseMismatchError_namesCurrentOnly(attempted, actual) ==
    <<"Phase mismatch: attempting to complete ", actual,
      " but current phase is ", actual>>

PhaseMismatchError(attempted, actual) ==
    <<"Phase mismatch: attempting to complete ", attempted,
      " but current phase is ", actual>>

\* mutant: the created state is not validated
startWorkflow_skipsValidation(workflow, issueNumber, now) ==
    LET created == [issueNumber |-> issueNumber,
                    currentPhase |-> ISSUE_START,
                    workingFiles |-> <<>>,
                    phaseHistory |-> <<>>,
                    startedAt |-> now,
                    updatedAt |-> now]
    IN IF workflow # null
       THEN [workflow |-> workflow, error |-> AlreadyActiveError(workflow),
             logs |-> <<"info">>]
       ELSE [workflow |-> created, error |-> NoError, logs |-> <<"info", "info">>]

\* mutant: no check for a workflow in progress
startWorkflow_replacesActive(workflow, issueNumber, now) ==
    LET created == [issueNumber |-> issueNumber,
                    currentPhase |-> ISSUE_START,
                    workingFiles |-> <<>>,
                    phaseHistory |-> <<>>,
                    startedAt |-> now,
                    updatedAt |-> now]
    IN IF ~WorkflowStateSchemaOk(created)
       THEN [workflow |-> workflow, error |-> ZodError, logs |-> <<"info">>]
       ELSE [workflow |-> created, error |-> NoError, logs |-> <<"info", "info">>]

\* startWorkflow: the manager's state after the call, the error it throws
\* (NoError when it returns) and the log calls it made
startWorkflow(workflow, issueNumber, now) ==
    LET created == [issueNumber |-> issueNumber,
                    currentPhase |-> ISSUE_START,
                    workingFiles |-> <<>>,
                    phaseHistory |-> <<>>,
                    startedAt |-> now,
                    updatedAt |-> now]
    IN IF workflow # null
       THEN [workflow |-> workflow, error |-> AlreadyActiveError(workflow),
             logs |-> <<"info">>]
       ELSE IF ~WorkflowStateSchemaOk(created)
       THEN [workflow |-> workflow, error |-> ZodError, logs |-> <<"info">>]
       ELSE [workflow |-> created, error |-> NoError, logs |-> <<"info", "info">>]

\* mutant: the new result is put in front of the history
updatedWorkflowState_prepends(workflow, phaseResult, now) ==
    LET updatedWorkingFiles ==
            ArrayFromSet(workflow.workingFiles \o phaseResult.workingFiles)
        updatedHistory == <<phaseResult>> \o workflow.phaseHistory
        nextPhase == determineNextPhase(workflow, phaseResult)
    IN [workflow EXCEPT !.currentPhase = nextPhase,
                        !.workingFiles = updatedWorkingFiles,
                        !.phaseHistory = updatedHistory,
                        !.updatedAt = now]

\* mutant: updatedAt is stamped with new Date(0)
updatedWorkflowState_stampsEpoch(workflow, phaseResult, now) ==
    LET updatedWorkingFiles ==
            ArrayFromSet(workflow.workingFiles \o phaseResult.workingFiles)
        updatedHistory == Append(workflow.phaseHistory, phaseResult)
        nextPhase == determineNextPhase(workflow, phaseResult)
    IN [workflow EXCEPT !.currentPhase = nextPhase,
                        !.workingFiles = updatedWorkingFiles,
                        !.phaseHistory = updatedHistory,
                        !.updatedAt = 0]

\* mutant: the update stamps startedAt as well
updatedWorkflowState_restampsStart(workflow, phaseResult, now) ==
    LET updatedWorkingFiles ==
            ArrayFromSet(workflow.workingFiles \o phaseResult.workingFiles)
        updatedHistory == Append(workflow.phaseHistory, phaseResult)
        nextPhase == determineNextPhase(workflow, phaseResult)
    IN [workflow EXCEPT !.currentPhase = nextPhase,
                        !.workingFiles = updatedWorkingFiles,
                        !.phaseHistory = updatedHistory,
                        !.startedAt = now,
                        !.updatedAt = now]

\* completePhase past its checks: the updatedWorkflow it builds
updatedWorkflowState(workflow, phaseResult, now) ==
    LET updatedWorkingFiles ==
            ArrayFromSet(workflow.workingFiles \o phaseResult.workingFiles)
        updatedHistory == Append(workflow.phaseHistory, phaseResult)
        nextPhase == determineNextPhase(workflow, phaseResult)
    IN [workflow EXCEPT !.currentPhase = nextPhase,
                        !.workingFiles = updatedWorkingFiles,
                        !.phaseHistory = updatedHistory,
                        !.updatedAt = now]

\* mutant: the phase check comes after the state was updated
completePhase_checksAfterUpdate(workflow, phaseResult, now) ==
    IF workflow = null
    THEN [workflow |-> workflow, error |-> NoActiveWorkflowError, logs |-> <<>>]
    ELSE IF ~PhaseResultSchemaOk(phaseResult)
    THEN [workflow |-> workflow, error |-> ZodError, logs |-> <<>>]
    ELSE IF phaseResult.phaseName # workflow.currentPhase
    THEN [workflow |-> updatedWorkflowState(workflow, phaseResult, now),
          error |-> PhaseMismatchError(phaseResult.phaseName, workflow.currentPhase),
          logs |-> <<"info">>]
    ELSE [workflow |-> updatedWorkflowState(workflow, phaseResult, now),
          error |-> NoError, logs |-> <<"info", "info">>]

\* mutant: 'Completing phase' is logged on entry, as startWorkflow logs
completePhase_logsOnEntry(workflow, phaseResult, now) ==
    IF workflow = null
    THEN [workflow |-> workflow, error |-> NoActiveWorkflowError, logs |-> <<"info">>]
    ELSE IF ~PhaseResultSchemaOk(phaseResult)
    THEN [workflow |-> workflow, error |-> ZodError, logs |-> <<"info">>]
    ELSE IF phaseResult.phaseName # workflow.currentPhase
    THEN [workflow |-> workflow,
          error |-> PhaseMismatchError(phaseResult.phaseName, workflow.currentPhase),
          logs |-> <<"info">>]
    ELSE [workflow |-> updatedWorkflowState(workflow, phaseResult, now),
          error |-> NoError, logs |-> <<"info", "info">>]

\* completePhase: the manager's state after the call, the error it throws and
\* the log calls it made
completePhase(workflow, phaseResult, now) ==
    IF workflow = null
    THEN [workflow |-> workflow, error |-> NoActiveWorkflowError, logs |-> <<>>]
    ELSE IF ~PhaseResultSchemaOk(phaseResult)
    THEN [workflow |-> workflow, error |-> ZodError, logs |-> <<>>]
    ELSE IF phaseResult.phaseName # workflow.currentPhase
    THEN [workflow |-> workflow,
          error |-> PhaseMismatchError(phaseResult.phaseName, workflow.currentPhase),
          logs |-> <<>>]
    ELSE [workflow |-> updatedWorkflowState(workflow, phaseResult, now),
          error |-> NoError, logs |-> <<"info", "info">>]

\* mutant: resetting without a workflow is an error
resetWorkflow_failsWhenIdle(workflow) ==
    IF workflow = null
    THEN [workflow |-> null, error |-> <<"No active workflow to reset">>,
          logs |-> <<"info">>]
    ELSE [workflow |-> null, error |-> NoError, logs |-> <<"info">>]

resetWorkflow(workflow) ==
    [workflow |-> null, error |-> NoError, logs |-> <<"info">>]

\* mutant: a phase that was completed twice is counted once
getWorkflowStatus_countsDistinctPhases(workflow) ==
    IF workflow = null
    THEN [hasActiveWorkflow |-> FALSE,
          issueNumber |-> undefined,
          currentPhase |-> undefined,
          totalPhases |-> 6,
          completedPhases |-> 0,
          workingFilesCount |-> 0]
    ELSE [hasActiveWorkflow |-> TRUE,
          issueNumber |-> workflow.issueNumber,
          currentPhase |-> workflow.currentPhase,
          totalPhases |-> 6,
          completedPhases |->
              Cardinality({workflow.phaseHistory[i].phaseName :
                              i \in 1..Len(workflow.phaseHistory)}),
          workingFilesCount |-> Len(workflow.workingFiles)]

\* mutant: the files are counted as completed phases
getWorkflowStatus_countsFiles(workflow) ==
    IF workflow = null
    THEN [hasActiveWorkflow |-> FALSE,
          issueNumber |-> undefined,
          currentPhase |-> undefined,
          totalPhases |-> 6,
          completedPhases |-> 0,
          workingFilesCount |-> 0]
    ELSE [hasActiveWorkflow |-> TRUE,
          issueNumber |-> workflow.issueNumber,
          currentPhase |-> workflow.currentPhase,
          totalPhases |-> 6,
          completedPhases |-> Len(workflow.workingFiles),
          workingFilesCount |-> Len(workflow.workingFiles)]

getWorkflowStatus(workflow) ==
    IF workflow = null
    THEN [hasActiveWorkflow |-> FALSE,
          issueNumber |-> undefined,
          currentPhase |-> undefined,
          totalPhases |-> 6,
          completedPhases |-> 0,
          workingFilesCount |-> 0]
    ELSE [hasActiveWorkflow |-> TRUE,
          issueNumber |-> workflow.issueNumber,
          currentPhase |-> workflow.currentPhase,
          totalPhases |-> 6,
          completedPhases |-> Len(workflow.phaseHistory),
          workingFilesCount |-> Len(workflow.workingFiles)]

----------------------------------------------------------------------------
(* phases.ts phaseDefinitions and WorkflowManager.getCurrentPhaseInstruction *)
(* (the guidance text of an instruction is left out; its phaseName is kept) *)

phaseDefinitions == [p \in Phases |-> [phaseName |-> p]]

getCurrentPhaseInstruction(workflow) ==
    IF workflow = null THEN null
    ELSE IF workflow.currentPhase \in DOMAIN phaseDefinitions
    THEN phaseDefinitions[workflow.currentPhase]
    ELSE null

----------------------------------------------------------------------------
(* workflow/tools.ts: the tool handlers *)

formatPhaseInstructionResponse(issueNumber, instruction) ==
    <<"Current Phase: ", instruction.phaseName, "Issue: #", issueNumber>>

formatPhaseTransitionResponse(workflow, completedPhase, nextInstruction) ==
    <<"Phase Completed: ", completedPhase, "Now Moving to: ", nextInstruction.phaseName>>
        \o formatPhaseInstructionResponse(workflow.issueNumber, nextInstruction)

formatWorkflowCompletionResponse(workflow) ==
    <<"Workflow Completed Successfully!", "Issue: #", workflow.issueNumber,
      "Workflow is now complete. Use start_issue_workflow to begin work on a new issue.">>

InstructionError == <<"Failed to get phase instruction">>

\* start_issue_workflow: state of the manager, error the promise rejects with,
\* text it resolves with, log calls made
startIssueWorkflow(workflow, args, now) ==
    IF ~StartWorkflowSchemaOk(args)
    THEN [workflow |-> workflow, error |-> ZodError, response |-> <<>>,
          logs |-> <<"error">>]
    ELSE LET r == startWorkflow(workflow, args.issueNumber, now)
             currentInstruction == getCurrentPhaseInstruction(r.workflow)
         IN IF r.error # NoError
            THEN [workflow |-> r.workflow, error |-> r.error, response |-> <<>>,
                  logs |-> <<"info">> \o r.logs \o <<"error">>]
            ELSE IF currentInstruction = null
            THEN [workflow |-> r.workflow, error |-> InstructionError, response |-> <<>>,
                  logs |-> <<"info">> \o r.logs \o <<"error">>]
            ELSE [workflow |-> r.workflow, error |-> NoError,
                  response |-> formatPhaseInstructionResponse(r.workflow.issueNumber,
                                                              currentInstruction),
                  logs |-> <<"info">> \o r.logs]

\* mutant: the summary is returned whatever the status
completePhaseTool_ignoresStatus(workflow, args, now) ==
    IF ~CompletePhaseSchemaOk(args)
    THEN [workflow |-> workflow, error |-> ZodError, response |-> <<>>,
          logs |-> <<"error">>]
    ELSE LET phaseResult == args.phaseResult
             r == completePhase(workflow, phaseResult, now)
             updatedWorkflow == r.workflow
             nextInstruction == getCurrentPhaseInstruction(updatedWorkflow)
         IN IF r.error # NoError
            THEN [workflow |-> r.workflow, error |-> r.error, response |-> <<>>,
                  logs |-> <<"info">> \o r.logs \o <<"error">>]
            ELSE IF updatedWorkflow.currentPhase = COMPLETION
            THEN [workflow |-> updatedWorkflow, error |-> NoError,
                  response |-> formatWorkflowCompletionResponse(updatedWorkflow),
                  logs |-> <<"info">> \o r.logs]
            ELSE IF nextInstruction = null
            THEN [workflow |-> updatedWorkflow, error |-> InstructionError,
                  response |-> <<>>, logs |-> <<"info">> \o r.logs \o <<"error">>]
            ELSE [workflow |-> updatedWorkflow, error |-> NoError,
                  response |-> formatPhaseTransitionResponse(updatedWorkflow,
                                   phaseResult.phaseName, nextInstruction),
                  logs |-> <<"info">> \o r.logs]

\* complete_phase
completePhaseTool(workflow, args, now) ==
    IF ~CompletePhaseSchemaOk(args)
    THEN [workflow |-> workflow, error |-> ZodError, response |-> <<>>,
          logs |-> <<"error">>]
    ELSE LET phaseResult == args.phaseResult
             r == completePhase(workflow, phaseResult, now)
             updatedWorkflow == r.workflow
             nextInstruction == getCurrentPhaseInstruction(updatedWorkflow)
         IN IF r.error # NoError
            THEN [workflow |-> r.workflow, error |-> r.error, response |-> <<>>,
                  logs |-> <<"info">> \o r.logs \o <<"error">>]
            ELSE IF updatedWorkflow.currentPhase = COMPLETION
                    /\ phaseResult.status = "completed"
            THEN [workflow |-> updatedWorkflow, error |-> NoError,
                  response |-> formatWorkflowCompletionResponse(updatedWorkflow),
                  logs |-> <<"info">> \o r.logs]
            ELSE IF nextInstruction = null
            THEN [workflow |-> updatedWorkflow, error |-> InstructionError,
                  response |-> <<>>, logs |-> <<"info">> \o r.logs \o <<"error">>]
            ELSE [workflow |-> updatedWorkflow, error |-> NoError,
                  response |-> formatPhaseTransitionResponse(updatedWorkflow,
                                   phaseResult.phaseName, nextInstruction),
                  logs |-> <<"info">> \o r.logs]

NoActiveWorkflowText ==
    <<"No active workflow. Use start_issue_workflow to begin a new workflow.">>

CurrentInstructionError == <<"Failed to get current phase instruction">>

\* mutant: without a workflow the call is rejected
getCurrentPhaseTool_rejectsWhenIdle(workflow) ==
    LET currentInstruction == getCurrentPhaseInstruction(workflow)
    IN IF currentInstruction = null
       THEN [workflow |-> workflow, error |-> CurrentInstructionError,
             response |-> <<>>, logs |-> <<"error">>]
       ELSE [workflow |-> workflow, error |-> NoError,
             response |-> formatPhaseInstructionResponse(workflow.issueNumber,
                                                         currentInstruction),
             logs |-> <<>>]

\* get_current_phase
getCurrentPhaseTool(workflow) ==
    LET currentInstruction == getCurrentPhaseInstruction(workflow)
    IN IF workflow = null
       THEN [workflow |-> workflow, error |-> NoError,
             response |-> NoActiveWorkflowText, logs |-> <<>>]
       ELSE IF currentInstruction = null
       THEN [workflow |-> workflow, error |-> CurrentInstructionError,
             response |-> <<>>, logs |-> <<"error">>]
       ELSE [workflow |-> workflow, error |-> NoError,
             response |-> formatPhaseInstructionResponse(workflow.issueNumber,
                                                         currentInstruction),
             logs |-> <<>>]

formatWorkflowStatusResponse(status, workflow) ==
    IF ~status.hasActiveWorkflow
    THEN <<"No Active Workflow", "Use start_issue_workflow to begin working on an issue.">>
    ELSE <<"Workflow Status", "Issue: #", status.issueNumber,
           "Current Phase: ", status.currentPhase,
           "Progress: ", status.completedPhases, status.totalPhases,
           "Working Files: ", status.workingFilesCount>>
         \o (IF workflow # null /\ Len(workflow.phaseHistory) > 0
             THEN <<"Completed Phases">>
                  \o [i \in 1..Len(workflow.phaseHistory) |->
                         workflow.phaseHistory[i].phaseName]
             ELSE <<>>)

\* get_workflow_status
getWorkflowStatusTool(workflow) ==
    LET status == getWorkflowStatus(workflow)
    IN [workflow |-> workflow, error |-> NoError,
        response |-> formatWorkflowStatusResponse(status, workflow),
        logs |-> <<>>]

----------------------------------------------------------------------------
(* The calls: each is one synchronous handler run *)

HistoryLen == IF currentWorkflow = null THEN 0 ELSE Len(currentWorkflow.phaseHistory)

\* the entries written for the log calls `levels`: those the filter lets pass
emitted(configured, levels) ==
    SelectSeq(levels, LAMBDA level : shouldLog(configured, level))

\* the manager and the logger after a piece of code that ran without
\* interruption, whose outcome is r and which made the log calls `calls`: each
\* entry built goes to the console and to the stream, as the logger is
\* configured (Logger.log)
Logged(op, r, response, calls) ==
    LET entries == entriesOf(sequenceNumber, logLevel, calls)
    IN /\ currentWorkflow' = r.workflow
       /\ sequenceNumber' = logAll(sequenceNumber, logLevel, Levels(calls))
       /\ lastCall' = [op |-> op, error |-> r.error, response |-> response,
                       entries |-> emitted(logLevel, Levels(calls))]
       /\ console' = console \o consoleWrites(consoleOutput, entries)
       /\ writeStream' = IF fileOutput /\ logStream # undefined
                         THEN write(writeStream, Lines(entries))
                         ELSE writeStream
       /\ UNCHANGED <<clock, logLevel, consoleOutput, fileOutput, logStream, logFile>>

\* the state after a handler run that ran from its first statement to its
\* return without interruption
ReturnsLogged(op, r, response, calls) ==
    /\ Logged(op, r, response, calls)
    /\ UNCHANGED inFlight

\* the state after a call whose outcome is r
Returns(op, r, response) == ReturnsLogged(op, r, response, Messages(r.logs))

\* WorkflowManager, called directly
StartWorkflow(issueNumber) ==
    /\ sequenceNumber < MaxSeq
    /\ LET r == startWorkflow(currentWorkflow, issueNumber, clock)
       IN Returns("startWorkflow", r, <<>>)

CompletePhase(phaseResult) ==
    /\ sequenceNumber < MaxSeq
    /\ LET r == completePhase(currentWorkflow, phaseResult, clock)
       IN Returns("completePhase", r, <<>>)

ResetWorkflow ==
    /\ sequenceNumber < MaxSeq
    /\ LET r == resetWorkflow(currentWorkflow)
       IN Returns("resetWorkflow", r, <<>>)

\* mutant: a read is traced in the log
Read_tracesTheCall(error) ==
    [workflow |-> currentWorkflow, error |-> error, logs |-> <<"debug">>]

\* a call that reads: the manager is left as it is and nothing is logged
Read(error) ==
    [workflow |-> currentWorkflow, error |-> error, logs |-> <<>>]

GetWorkflowStatus ==
    /\ sequenceNumber < MaxSeq
    /\ LET status == getWorkflowStatus(currentWorkflow)
       IN Returns("getWorkflowStatus", Read(NoError), status)

CanTransitionTo(targetPhase) ==
    /\ sequenceNumber < MaxSeq
    /\ LET value == canTransitionTo(currentWorkflow, targetPhase)
       IN Returns("canTransitionTo", Read(NoError),
                  [targetPhase |-> targetPhase, value |-> value])

GetCurrentWorkflow ==
    /\ sequenceNumber < MaxSeq
    /\ Returns("getCurrentWorkflow", Read(NoError), [value |-> currentWorkflow])

\* getCurrentPhaseInstruction logs an error when the catalog has no entry for
\* the current phase
GetCurrentPhaseInstruction ==
    /\ sequenceNumber < MaxSeq
    /\ LET instruction == getCurrentPhaseInstruction(currentWorkflow)
           r == Read(NoError)
       IN Returns("getCurrentPhaseInstruction",
                  IF currentWorkflow # null /\ instruction = null
                  THEN [r EXCEPT !.logs = @ \o <<"error">>]
                  ELSE r,
                  [value |-> instruction])

\* phases.ts helpers, called directly
GetValidNextPhases(currentPhase) ==
    /\ sequenceNumber < MaxSeq
    /\ LET value == getValidNextPhases(currentPhase)
       IN Returns("getValidNextPhases", Read(NoError),
                  [currentPhase |-> currentPhase, value |-> value])

IsValidPhaseTransition(from, to) ==
    /\ sequenceNumber < MaxSeq
    /\ LET r == isValidPhaseTransition(from, to)
       IN Returns("isValidPhaseTransition", Read(r.error),
                  [from |-> from, to |-> to, value |-> r.value])

\* WorkflowTools
StartIssueWorkflowTool(args) ==
    /\ sequenceNumber < MaxSeqTools
    /\ LET r == startIssueWorkflow(currentWorkflow, args, clock)
       IN Returns("start_issue_workflow", r, r.response)

CompletePhaseTool(args) ==
    /\ sequenceNumber < MaxSeqTools
    /\ LET r == completePhaseTool(currentWorkflow, args, clock)
       IN Returns("complete_phase", r, r.response)

ResetWorkflowTool ==
    /\ sequenceNumber < MaxSeqTools
    /\ LET r == resetWorkflow(currentWorkflow)
       IN Returns("WorkflowTools.resetWorkflow", r, <<>>)

GetCurrentPhaseTool ==
    /\ sequenceNumber < MaxSeqTools
    /\ LET r == getCurrentPhaseTool(currentWorkflow)
       IN Returns("get_current_phase", r, r.response)

GetWorkflowStatusTool ==
    /\ sequenceNumber < MaxSeqTools
    /\ LET r == getWorkflowStatusTool(currentWorkflow)
       IN Returns("get_workflow_status", r, r.response)

(* index.ts: the server's request handlers *)

\* this.allTools: the task tools, then the workflow tools
allTools ==
    <<"list_tasks", "add_task", "update_task_status", "update_task",
      "get_task_details", "delete_task",
      "start_issue_workflow", "complete_phase", "get_current_phase",
      "get_workflow_status">>

\* this.allTools.find(t => t.name === name)
find(name) == IF includes(allTools, name) THEN name ELSE undefined

McpError(code, message) == <<"McpError", code>> \o message

ProtocolCall(type, method) ==
    [level |-> "info", kind |-> "protocol",
     protocol |-> [type |-> type, method |-> method]]

\* tool.handler(args || {}) of a workflow tool
handler(tool, workflow, args, now) ==
    CASE tool = "start_issue_workflow" -> startIssueWorkflow(workflow, args, now)
      [] tool = "complete_phase" -> completePhaseTool(workflow, args, now)
      [] tool = "get_current_phase" -> getCurrentPhaseTool(workflow)
      [] tool = "get_workflow_status" -> getWorkflowStatusTool(workflow)

\* the tools/list handler: one request is logged and the list is returned
ListTools ==
    /\ sequenceNumber < MaxSeqServer
    /\ ReturnsLogged("tools/list",
                     [workflow |-> currentWorkflow, error |-> NoError],
                     allTools, <<ProtocolCall("request", "tools/list")>>)

\* the tools/call handler, from the request to the value or error it ends with
CallTool(name, args) ==
    /\ sequenceNumber < MaxSeqServer
    /\ LET request == ProtocolCall("request", "tools/call")
           response == ProtocolCall("response", "tools/call")
           tool == find(name)
       IN IF tool = undefined
          THEN ReturnsLogged("tools/call",
                             [workflow |-> currentWorkflow,
                              error |-> McpError("MethodNotFound", <<"Unknown tool", name>>)],
                             <<>>, <<request>>)
          ELSE LET r == handler(tool, currentWorkflow, args, clock)
               IN ReturnsLogged("tools/call",
                                [workflow |-> r.workflow,
                                 error |-> IF r.error = NoError THEN NoError
                                           ELSE McpError("InternalError", r.error)],
                                r.response,
                                <<request>> \o Messages(r.logs) \o <<response>>)

\* The handler of tools/call is an async function: it runs from its first
\* statement to `await tool.handler(args || {})` without interruption, the call
\* of tool.handler included, and what follows the await runs later, after any
\* handler run that was started in between.  The handlers of the workflow
\* tools are not async: each runs to its return and hands back a promise that
\* is already settled.

\* the requests the transport can have handed over at one time
Calls == {"A", "B"}

NoRun ==
    [pc |-> "none", name |-> "none", args |-> [none |-> TRUE], before |-> null,
     after |-> null, error |-> NoError, response |-> <<>>]

NoneInFlight == [c \in Calls |-> NoRun]

\* the handler run up to its await: the manager's state it leaves, the promise
\* (error it rejects with, text it resolves with) and the handler's log calls;
\* an unknown name throws before the await and the run is over
callTool(name, workflow, args, now) ==
    LET tool == find(name)
    IN IF tool = undefined
       THEN [workflow |-> workflow,
             error |-> McpError("MethodNotFound", <<"Unknown tool", name>>),
             response |-> <<>>, logs |-> <<>>, awaits |-> FALSE]
       ELSE LET r == handler(tool, workflow, args, now)
            IN [workflow |-> r.workflow,
                error |-> IF r.error = NoError THEN NoError
                          ELSE McpError("InternalError", r.error),
                response |-> r.response, logs |-> r.logs, awaits |-> TRUE]

\* mutant: the manager's state is assigned in what follows the await
managerState_assignedAfterAwait(at, current, after) ==
    IF at = "continuation" THEN after ELSE current

\* currentWorkflow when the run is `at` its handler call or at what follows
\* the await: the handler has assigned it before it returned
managerState(at, current, after) ==
    IF at = "handler" THEN after ELSE current

\* the transport starts a handler run for request c while others wait
Dispatch(c, name, args) ==
    /\ inFlight[c].pc = "none"
    /\ sequenceNumber < MaxSeqOverlap
    /\ LET r == callTool(name, currentWorkflow, args, clock)
       IN /\ Logged("tools/call",
                    [workflow |-> managerState("handler", currentWorkflow, r.workflow),
                     error |-> r.error],
                    r.response,
                    <<ProtocolCall("request", "tools/call")>> \o Messages(r.logs))
          /\ inFlight' = [inFlight EXCEPT ![c] =
                             [pc |-> IF r.awaits THEN "awaiting" ELSE "done",
                              name |-> name, args |-> args,
                              before |-> currentWorkflow, after |-> r.workflow,
                              error |-> r.error, response |-> r.response]]

\* what follows the await: the response is logged, the result returned
Resume(c) ==
    /\ inFlight[c].pc = "awaiting"
    /\ Logged("tools/call",
              [workflow |-> managerState("continuation", currentWorkflow,
                                         inFlight[c].after),
               error |-> inFlight[c].error],
              inFlight[c].response,
              <<ProtocolCall("response", "tools/call")>>)
    /\ inFlight' = [inFlight EXCEPT ![c].pc = "done"]

\* the responses were sent: the transport takes the next requests
Respond ==
    /\ \A c \in Calls : inFlight[c].pc \in {"none", "done"}
    /\ \E c \in Calls : inFlight[c].pc = "done"
    /\ inFlight' = NoneInFlight
    /\ UNCHANGED <<currentWorkflow, clock, sequenceNumber, logLevel, lastCall>>
    /\ UNCHANGED sinks

\* the process has not exited
Alive == writeStream.state # "exited"

\* a method of the logger called by itself: the manager is not involved
LoggerCall(op, calls) ==
    ReturnsLogged(op, [workflow |-> currentWorkflow, error |-> NoError],
                  Levels(calls), calls)

Log(level) ==
    /\ Alive /\ sequenceNumber < MaxEntries
    /\ LoggerCall("log", <<Message(level)>>)

Debug ==
    /\ Alive /\ sequenceNumber < MaxEntries
    /\ LoggerCall("debug", <<Message("debug")>>)

Info ==
    /\ Alive /\ sequenceNumber < MaxEntries
    /\ LoggerCall("info", <<Message("info")>>)

Warn ==
    /\ Alive /\ sequenceNumber < MaxEntries
    /\ LoggerCall("warn", <<Message("warn")>>)

Error ==
    /\ Alive /\ sequenceNumber < MaxEntries
    /\ LoggerCall("error", <<Message("error")>>)

LogProtocol(protocol) ==
    /\ Alive /\ sequenceNumber < MaxEntries
    /\ LoggerCall("logProtocol",
                  <<[level |-> "info", kind |-> "protocol", protocol |-> protocol]>>)

LogWorkflow ==
    /\ Alive /\ sequenceNumber < MaxEntries
    /\ LoggerCall("logWorkflow",
                  <<[level |-> "info", kind |-> "workflow", protocol |-> NoProtocol]>>)

Close ==
    /\ Alive
    /\ LET r == close(logStream, writeStream)
       IN /\ logStream' = r.logStream
          /\ writeStream' = r.writeStream
          /\ lastCall' = [op |-> "close", error |-> r.error, response |-> <<>>,
                          entries |-> <<>>]
    /\ UNCHANGED <<currentWorkflow, clock, sequenceNumber, logLevel,
                   consoleOutput, fileOutput, logFile, console, inFlight>>

\* the stream, on its own schedule: it writes the oldest line it has accepted
Flush ==
    /\ writeStream.state \in {"open", "ending"}
    /\ writeStream.buffer # <<>>
    /\ logFile' = Append(logFile, Head(writeStream.buffer))
    /\ writeStream' = [writeStream EXCEPT !.buffer = Tail(@)]
    /\ UNCHANGED <<currentWorkflow, clock, sequenceNumber, logLevel, lastCall,
                   consoleOutput, fileOutput, logStream, console, inFlight>>

\* a stream that was ended and has written everything closes the file
Finish ==
    /\ writeStream.state = "ending"
    /\ writeStream.buffer = <<>>
    /\ writeStream' = [writeStream EXCEPT !.state = "closed"]
    /\ UNCHANGED <<currentWorkflow, clock, sequenceNumber, logLevel, lastCall,
                   consoleOutput, fileOutput, logStream, logFile, console, inFlight>>

\* opening the file or a write fails: the stream is destroyed, and what it had
\* accepted and not written is gone
StreamFails ==
    /\ writeStream.state \in {"open", "ending"}
    /\ writeStream' = [state |-> "failed", buffer |-> <<>>]
    /\ UNCHANGED <<currentWorkflow, clock, sequenceNumber, logLevel, lastCall,
                   consoleOutput, fileOutput, logStream, logFile, console, inFlight>>

\* the 'error' event of the destroyed stream reaches the logger's listener
OnStreamError ==
    /\ writeStream.state = "failed"
    /\ LET r == onStreamError(fileOutput, logStream)
       IN /\ fileOutput' = r.fileOutput
          /\ logStream' = r.logStream
    /\ writeStream' = [writeStream EXCEPT !.state = "destroyed"]
    /\ UNCHANGED <<currentWorkflow, clock, sequenceNumber, logLevel, lastCall,
                   consoleOutput, logFile, console, inFlight>>

\* index.ts: a signal or an uncaught error is logged at `level`, then
\* shutdown() logs, closes the logger and exits; what the stream has not
\* written when the process exits stays in its buffer for good
Shutdown(level) ==
    /\ Alive
    /\ LET calls == <<Message(level), Message("info")>>
           entries == entriesOf(sequenceNumber, logLevel, calls)
           written == IF fileOutput /\ logStream # undefined
                      THEN write(writeStream, Lines(entries))
                      ELSE writeStream
           r == close(logStream, written)
       IN /\ sequenceNumber' = logAll(sequenceNumber, logLevel, Levels(calls))
          /\ console' = console \o consoleWrites(consoleOutput, entries)
          /\ logStream' = r.logStream
          /\ writeStream' = [r.writeStream EXCEPT !.state = "exited"]
          /\ lastCall' = [op |-> "shutdown", error |-> r.error,
                          response |-> Levels(calls),
                          entries |-> emitted(logLevel, Levels(calls))]
    /\ UNCHANGED <<currentWorkflow, clock, logLevel, consoleOutput, fileOutput, logFile, inFlight>>

\* time passes between calls
Tick ==
    /\ clock < MaxClock
    /\ clock' = clock + 1
    /\ UNCHANGED <<currentWorkflow, sequenceNumber, logLevel, lastCall, inFlight>>
    /\ UNCHANGED sinks

----------------------------------------------------------------------------
(* Inputs *)

\* undefined: startWorkflow called without an issue number
IssueNumbers == {"", undefined, "42", "43"}

FileLists == {<<>>, <<"a.ts">>, <<"b.ts", "a.ts">>, <<"a.ts", "a.ts">>}

PhaseResults(names, statuses, files, nexts, stamps) ==
    [phaseName : names, status : statuses, workingFiles : files,
     completedTasks : {<<>>}, notes : {undefined}, nextPhase : nexts,
     completedAt : stamps]

\* the results that name the phase the workflow is in
ForCurrentPhase(results) ==
    {r \in results : currentWorkflow # null /\ r.phaseName = currentWorkflow.currentPhase}

\* nothing was called yet
NoCall == [op |-> "none", error |-> NoError, response |-> <<>>, entries |-> <<>>]

\* a manager whose logger was built with one of `levels` and both outputs off,
\* as the tests of the manager and of the tools have it: the logger counts
\* its entries and writes them nowhere
InitWith(levels) ==
    /\ currentWorkflow = null
    /\ clock = 0
    /\ sequenceNumber = 0
    /\ logLevel \in levels
    /\ lastCall = NoCall
    /\ consoleOutput = FALSE
    /\ fileOutput = FALSE
    /\ logStream = undefined
    /\ writeStream = NoStream
    /\ logFile = <<>>
    /\ console = <<>>
    /\ inFlight = NoneInFlight

----------------------------------------------------------------------------
(* Spec: the manager under every kind of input, valid or not, short runs *)

\* results that pass validation: for the current phase every file list, with
\* and without nextPhase; for every phase name (so that most name a phase the
\* workflow is not in) the other statuses
ValidResults ==
    ForCurrentPhase(PhaseResults(Phases, {"completed"}, FileLists,
                                 {undefined, FIX}, {ValidStamp}))
    \cup PhaseResults(Phases, {"failed", "skipped"}, {<<>>}, {undefined}, {ValidStamp})

\* the result r without one of its fields
Without(r, field) == [k \in DOMAIN r \ {field} |-> r[k]]

\* a completedAt with a zone offset
OffsetStamp == "2024-01-01T09:00:00+09:00"

\* results with one field invalid or missing
InvalidResults ==
    PhaseResults({BadEnum}, {"completed"}, {<<>>}, {undefined}, {ValidStamp})
    \cup PhaseResults({ISSUE_START}, {BadEnum}, {<<>>}, {undefined}, {ValidStamp})
    \cup PhaseResults({ISSUE_START}, {"completed"}, {<<>>}, {BadEnum}, {ValidStamp})
    \cup PhaseResults({ISSUE_START}, {"completed"}, {<<>>}, {undefined},
                      {BadStamp, OffsetStamp})
    \cup {Without(r, field) :
             r \in PhaseResults({ISSUE_START}, {"completed"}, {<<>>}, {undefined},
                                {ValidStamp}),
             field \in PhaseResultRequired}

AllResults == ValidResults \cup InvalidResults

CompleteAny ==
    /\ HistoryLen < MaxHistory
    /\ \E phaseResult \in AllResults : CompletePhase(phaseResult)

StartAny == \E issueNumber \in IssueNumbers : StartWorkflow(issueNumber)

Init == InitWith({"info", "error"})

Next ==
    \/ Tick
    \/ StartAny
    \/ CompleteAny
    \/ ResetWorkflow

Spec == Init /\ [][Next]_vars

----------------------------------------------------------------------------
(* The narrower specifications run one workflow deeper.  Their logger is   *)
(* built with logLevel error, so the manager's info entries are filtered.  *)

InitQuiet == InitWith({"error"})

StartFresh == currentWorkflow = null /\ StartWorkflow("42")

\* SpecPhases: every nextPhase value, the phase named being the current one
OverrideResults ==
    ForCurrentPhase(PhaseResults(Phases, {"completed"}, {<<>>},
                                 Phases \cup {undefined}, {ValidStamp}))

CompleteWithOverride ==
    /\ HistoryLen < MaxHistoryPhases
    /\ \E phaseResult \in OverrideResults : CompletePhase(phaseResult)

NextPhases == StartFresh \/ CompleteWithOverride \/ ResetWorkflow

SpecPhases == InitQuiet /\ [][NextPhases]_vars

\* SpecMismatch: every phase name against every current phase
MismatchResults ==
    PhaseResults(Phases, {"completed"}, {<<>>}, {undefined, FIX}, {ValidStamp})

CompleteAnyPhaseName ==
    /\ HistoryLen < MaxHistoryMismatch
    /\ \E phaseResult \in MismatchResults : CompletePhase(phaseResult)

NextMismatch == StartFresh \/ CompleteAnyPhaseName

SpecMismatch == InitQuiet /\ [][NextMismatch]_vars

\* SpecDefault: no nextPhase, every status, two file lists
DefaultResults ==
    ForCurrentPhase(PhaseResults(Phases, Statuses, {<<>>, <<"a.ts">>},
                                 {undefined}, {ValidStamp}))

CompleteDefault ==
    /\ HistoryLen < MaxHistoryDefault
    /\ \E phaseResult \in DefaultResults : CompletePhase(phaseResult)

NextDefault == StartFresh \/ CompleteDefault

SpecDefault == InitQuiet /\ [][NextDefault]_vars

\* SpecLoop: the remediation loop, as often as the bound allows
LoopResults ==
    ForCurrentPhase(PhaseResults(Phases, {"completed"}, {<<>>},
                                 {undefined, FIX, COMPLETION}, {ValidStamp}))

CompleteLoop ==
    /\ HistoryLen < MaxHistoryLoop
    /\ \E phaseResult \in LoopResults : CompletePhase(phaseResult)

NextLoop == StartFresh \/ CompleteLoop

SpecLoop == InitQuiet /\ [][NextLoop]_vars

\* SpecBranch: every status, each with no nextPhase, with nextPhase = fix and
\* with a nextPhase that no transition table allows (issue_start)
BranchResults ==
    ForCurrentPhase(PhaseResults(Phases, Statuses, {<<>>},
                                 {undefined, FIX, ISSUE_START}, {ValidStamp}))

CompleteBranch ==
    /\ HistoryLen < MaxHistoryBranch
    /\ \E phaseResult \in BranchResults : CompletePhase(phaseResult)

NextBranch == StartFresh \/ CompleteBranch \/ ResetWorkflow

SpecBranch == InitQuiet /\ [][NextBranch]_vars

\* SpecReads: the manager with its read-only methods, and reset at any point
ReadResults ==
    IF currentWorkflow = null
    THEN PhaseResults({ISSUE_START}, {"completed"}, {<<>>}, {undefined}, {ValidStamp})
    ELSE ForCurrentPhase(PhaseResults(Phases, {"completed"}, {<<>>, <<"a.ts">>},
                                      {undefined, FIX}, {ValidStamp}))

CompleteRead ==
    /\ HistoryLen < MaxHistoryReads
    /\ \E phaseResult \in ReadResults : CompletePhase(phaseResult)

StartRead == \E issueNumber \in {"42", ""} : StartWorkflow(issueNumber)

TargetPhases == Phases \cup {BadEnum}

CanTransitionToAny == \E targetPhase \in TargetPhases : CanTransitionTo(targetPhase)

NextReads ==
    \/ StartRead
    \/ CompleteRead
    \/ ResetWorkflow
    \/ GetWorkflowStatus
    \/ CanTransitionToAny

SpecReads == InitQuiet /\ [][NextReads]_vars

\* SpecReadOnly: the same with the two remaining read methods, under a logger
\* that lets every entry pass and under one that lets only errors pass
NextReadOnly ==
    \/ StartRead
    \/ CompleteRead
    \/ ResetWorkflow
    \/ GetWorkflowStatus
    \/ CanTransitionToAny
    \/ GetCurrentWorkflow
    \/ GetCurrentPhaseInstruction

SpecReadOnly == InitWith({"debug", "error"}) /\ [][NextReadOnly]_vars

\* SpecOverlap: the server with two requests handed over at a time; a
\* complete_phase names the current phase or the phase that was current when
\* a request still in flight was handed over
SeenPhases ==
    {w.currentPhase :
        w \in {v \in {currentWorkflow} \cup {inFlight[c].before : c \in Calls} :
                  v # null}}

OverlapResults ==
    PhaseResults(SeenPhases, {"completed"}, {<<>>}, {undefined, FIX}, {ValidStamp})

DispatchStart ==
    \E c \in Calls : Dispatch(c, "start_issue_workflow", [issueNumber |-> "42"])

DispatchComplete ==
    /\ HistoryLen < MaxHistoryOverlap
    /\ \E c \in Calls, phaseResult \in OverlapResults :
          Dispatch(c, "complete_phase", [phaseResult |-> phaseResult])

DispatchUnknown == \E c \in Calls : Dispatch(c, "no_such_tool", [none |-> TRUE])

ResumeAny == \E c \in Calls : Resume(c)

\* WorkflowTools.resetWorkflow is no tool of the server: the code that owns the
\* facade calls it, here between two rounds of requests
ResetBetween ==
    /\ \A c \in Calls : inFlight[c].pc = "none"
    /\ ResetWorkflowTool

\* the logger counts its entries; where they are written is left to SpecServer
InitOverlap == InitWith({"info"})

NextOverlap ==
    \/ DispatchStart
    \/ DispatchComplete
    \/ DispatchUnknown
    \/ ResumeAny
    \/ Respond
    \/ ResetBetween

SpecOverlap == InitOverlap /\ [][NextOverlap]_vars

\* SpecProgress: one workflow through the remediation loop and past
\* completion, with completes that fail in between, and the two status calls
ProgressResults ==
    LoopResults
    \cup PhaseResults({ISSUE_START}, {"completed"}, {<<>>}, {undefined}, {ValidStamp})

CompleteProgress ==
    /\ HistoryLen < MaxHistoryProgress
    /\ \E phaseResult \in ProgressResults : CompletePhase(phaseResult)

NextProgress ==
    \/ StartFresh
    \/ CompleteProgress
    \/ ResetWorkflow
    \/ GetWorkflowStatus
    \/ GetWorkflowStatusTool

SpecProgress == InitQuiet /\ [][NextProgress]_vars

\* SpecTransitions: the helpers of phases.ts on every pair of names, the six
\* phases and strings that are no phase
UnknownNames == {"unknown", "", "constructor", "toString", "__proto__"}

PhaseNames == Phases \cup UnknownNames

GetValidNextPhasesAny ==
    \E currentPhase \in PhaseNames : GetValidNextPhases(currentPhase)

IsValidPhaseTransitionAny ==
    \E from \in PhaseNames, to \in PhaseNames : IsValidPhaseTransition(from, to)

NextTransitions == GetValidNextPhasesAny \/ IsValidPhaseTransitionAny

SpecTransitions == InitQuiet /\ [][NextTransitions]_vars

\* SpecTools: the tool handlers, with a logger at the server's level (info)
StartArgs == {[issueNumber |-> "42"], [issueNumber |-> "43"], [issueNumber |-> ""]}

ToolResults ==
    ForCurrentPhase(PhaseResults(Phases, Statuses, {<<>>},
                                 {undefined, FIX}, {ValidStamp}))

StartTool == \E args \in StartArgs : StartIssueWorkflowTool(args)

CompleteTool ==
    /\ HistoryLen < MaxHistoryTools
    /\ \E phaseResult \in ToolResults :
          CompletePhaseTool([phaseResult |-> phaseResult])

InitTools == InitWith({"info"})

NextTools ==
    \/ StartTool
    \/ CompleteTool
    \/ ResetWorkflowTool
    \/ GetCurrentPhaseTool
    \/ GetWorkflowStatusTool

SpecTools == InitTools /\ [][NextTools]_vars

\* SpecToolErrors: the handlers that change the workflow, under every input
\* and each of the four log levels
StartArgsAny == StartArgs \cup {[number |-> "42"]}

CompleteArgsAny ==
    {[phaseResult |-> phaseResult] : phaseResult \in AllResults}
    \cup {[result |-> "none"]}

StartToolAny == \E args \in StartArgsAny : StartIssueWorkflowTool(args)

CompleteToolAny ==
    /\ HistoryLen < MaxHistory
    /\ \E args \in CompleteArgsAny : CompletePhaseTool(args)

InitToolErrors == InitWith({"debug", "info", "warn", "error"})

NextToolErrors == StartToolAny \/ CompleteToolAny \/ ResetWorkflowTool

SpecToolErrors == InitToolErrors /\ [][NextToolErrors]_vars

\* SpecLogger: a logger by itself, under every configuration, with the
\* stream working on its own schedule
InitLogger ==
    /\ currentWorkflow = null
    /\ clock = 0
    /\ sequenceNumber = 0
    /\ logLevel \in {"debug", "info", "warn", "error"}
    /\ lastCall = NoCall
    /\ consoleOutput \in BOOLEAN
    \* fileOutput is false when it was configured so, and when mkdirSync or
    \* createWriteStream threw in initializeFileLogging
    /\ fileOutput \in BOOLEAN
    /\ logStream = IF fileOutput THEN "WriteStream" ELSE undefined
    /\ writeStream = IF fileOutput THEN NewStream ELSE NoStream
    /\ logFile = <<>>
    /\ console = <<>>
    /\ inFlight = NoneInFlight

LogAny == \E level \in {"debug", "info", "warn", "error"} : Log(level)

LogProtocolAny ==
    \E protocol \in {[type |-> "request", method |-> "tools/list"]} :
        LogProtocol(protocol)

ShutdownAny == \E level \in {"info", "error"} : Shutdown(level)

NextLogger ==
    \/ LogAny
    \/ Debug
    \/ Info
    \/ Warn
    \/ Error
    \/ LogProtocolAny
    \/ LogWorkflow
    \/ Close
    \/ Flush
    \/ Finish
    \/ StreamFails
    \/ OnStreamError
    \/ ShutdownAny

SpecLogger == InitLogger /\ [][NextLogger]_vars

\* SpecServer: the server of index.ts: its logger, its handlers for
\* tools/list and tools/call, and the stream writing the log file
InitServer ==
    /\ currentWorkflow = null
    /\ clock = 0
    /\ sequenceNumber = 0
    /\ logLevel = "info"
    /\ lastCall = NoCall
    /\ consoleOutput = FALSE
    /\ fileOutput = TRUE
    /\ logStream = "WriteStream"
    /\ writeStream = NewStream
    /\ logFile = <<>>
    /\ console = <<>>
    /\ inFlight = NoneInFlight

CallStart ==
    \E args \in {[issueNumber |-> "42"], [issueNumber |-> ""]} :
        CallTool("start_issue_workflow", args)

CallComplete ==
    /\ HistoryLen < MaxHistoryServer
    /\ \E phaseResult \in ForCurrentPhase(PhaseResults(Phases, {"completed"}, {<<>>},
                                                       {undefined}, {ValidStamp})) :
          CallTool("complete_phase", [phaseResult |-> phaseResult])

CallRead ==
    \E name \in {"get_current_phase", "get_workflow_status"} :
        CallTool(name, [none |-> TRUE])

CallUnknown == CallTool("no_such_tool", [none |-> TRUE])

NextServer ==
    \/ ListTools
    \/ CallStart
    \/ CallComplete
    \/ CallRead
    \/ CallUnknown
    \/ Flush

SpecServer == InitServer /\ [][NextServer]_vars

----------------------------------------------------------------------------
(* Claims *)

\* a successful completePhase call with this result is the step taken
Completes(phaseResult) == CompletePhase(phaseResult) /\ lastCall'.error = NoError

\* the step taken is a completePhase call: a call records itself in lastCall
\* and leaves the clock alone, and only Tick moves the clock
CompleteCalled == lastCall'.op = "completePhase" /\ clock' = clock

\* the default mapping of section 4.3 (c)
DefaultNext(p) ==
    CASE p = ISSUE_START -> IMPLEMENTATION
      [] p = IMPLEMENTATION -> QUALITY_CHECK
      [] p = QUALITY_CHECK -> PR_CREATION
      [] p = PR_CREATION -> COMPLETION
      [] p = FIX -> QUALITY_CHECK
      [] p = COMPLETION -> COMPLETION

\* the Transition Table of section 4.2
TransitionTable(p) ==
    CASE p = ISSUE_START -> {IMPLEMENTATION}
      [] p = IMPLEMENTATION -> {QUALITY_CHECK}
      [] p = QUALITY_CHECK -> {PR_CREATION}
      [] p = PR_CREATION -> {FIX, COMPLETION}
      [] p = FIX -> {QUALITY_CHECK}
      [] p = COMPLETION -> {}

(* C1: every successful complete moves currentPhase from p to a phase q that is
   in the Transition Table entry of p, or p = q = completion, whatever
   nextPhase the result carries. *)
C1_CompleteFollowsTransitionTable ==
    [][\A phaseResult \in OverrideResults :
          Completes(phaseResult) =>
              LET p == currentWorkflow.currentPhase
                  q == currentWorkflow'.currentPhase
              IN q \in TransitionTable(p) \/ (p = COMPLETION /\ q = COMPLETION)]_vars

(* C2: a successful complete sets currentPhase to nextPhase when it is present
   and a valid transition from the current phase, and to the default mapping
   in every other case. *)
C2_OverrideElseDefault ==
    [][\A phaseResult \in OverrideResults :
          Completes(phaseResult) =>
              LET p == currentWorkflow.currentPhase
              IN currentWorkflow'.currentPhase =
                    IF phaseResult.nextPhase # undefined
                       /\ phaseResult.nextPhase \in TransitionTable(p)
                    THEN phaseResult.nextPhase
                    ELSE DefaultNext(p)]_vars

(* C3: a complete call that fails (no active workflow, invalid PhaseResult, or
   a phaseName that is not the current phase) leaves the WorkflowState exactly
   as it was: every field unchanged, and an absent workflow stays absent. *)
C3_FailedCompleteChangesNothing ==
    [][(CompleteCalled /\ lastCall'.error # NoError)
          => currentWorkflow' = currentWorkflow]_vars

\* a mismatched complete has failed on a workflow that has a history and files,
\* at an instant later than its updatedAt
C3_Witness ==
    /\ lastCall.op = "completePhase"
    /\ Len(lastCall.error) = 4
    /\ currentWorkflow # null
    /\ Len(currentWorkflow.phaseHistory) = 1
    /\ currentWorkflow.workingFiles # <<>>
    /\ clock > currentWorkflow.updatedAt

(* C4: with a workflow active, complete with a schema-valid PhaseResult raises
   PhaseMismatch exactly when result.phaseName differs from currentPhase, and
   the message names the attempted phase and the current phase. *)
C4_PhaseMismatchIffDifferent ==
    [][\A phaseResult \in MismatchResults :
          (currentWorkflow # null /\ CompletePhase(phaseResult)) =>
              IF phaseResult.phaseName # currentWorkflow.currentPhase
              THEN /\ Len(lastCall'.error) = 4
                   /\ lastCall'.error[1] = "Phase mismatch: attempting to complete "
                   /\ lastCall'.error[2] = phaseResult.phaseName
                   /\ lastCall'.error[3] = " but current phase is "
                   /\ lastCall'.error[4] = currentWorkflow.currentPhase
              ELSE lastCall'.error = NoError]_vars

\* completing issue_start was attempted while the workflow was in fix
C4_Witness ==
    /\ lastCall.op = "completePhase"
    /\ Len(lastCall.error) = 4
    /\ lastCall.error[2] = ISSUE_START
    /\ lastCall.error[4] = FIX
    /\ currentWorkflow # null
    /\ currentWorkflow.currentPhase = FIX

(* C5: start called while a workflow is active raises AlreadyActive, naming the
   active issue, and leaves the existing workflow untouched, whatever the phase
   and the issueId given. *)
C5_StartWhileActiveRejected ==
    [][\A issueNumber \in IssueNumbers :
          (currentWorkflow # null /\ StartWorkflow(issueNumber)) =>
              /\ Len(lastCall'.error) = 3
              /\ lastCall'.error[1] = "Workflow already in progress for issue "
              /\ lastCall'.error[2] = currentWorkflow.issueNumber
              /\ currentWorkflow' = currentWorkflow]_vars

\* a start was rejected while a workflow with a history was in implementation
C5_Witness ==
    /\ lastCall.op = "startWorkflow"
    /\ Len(lastCall.error) = 3
    /\ currentWorkflow # null
    /\ currentWorkflow.currentPhase = IMPLEMENTATION
    /\ Len(currentWorkflow.phaseHistory) = 1

(* C6: once a workflow has been completed (complete_phase returned the terminal
   summary, currentPhase = completion), a following start_issue_workflow with a
   non-empty issue number succeeds and begins a new workflow at issue_start,
   without any reset. *)
C6_StartAfterCompletionSucceeds ==
    [][\A args \in StartArgs :
          (/\ currentWorkflow # null
           /\ currentWorkflow.currentPhase = COMPLETION
           /\ lastCall.op = "complete_phase"
           /\ lastCall.response # <<>>
           /\ lastCall.response[1] = "Workflow Completed Successfully!"
           /\ args.issueNumber # ""
           /\ StartIssueWorkflowTool(args))
          => /\ lastCall'.error = NoError
             /\ currentWorkflow' # null
             /\ currentWorkflow'.issueNumber = args.issueNumber
             /\ currentWorkflow'.currentPhase = ISSUE_START
             /\ currentWorkflow'.phaseHistory = <<>>]_vars

\* the phase the workflow was in after the i-th completion
PhaseAfter(i) ==
    IF i < Len(currentWorkflow.phaseHistory)
    THEN currentWorkflow.phaseHistory[i + 1].phaseName
    ELSE currentWorkflow.currentPhase

DefaultSequence == <<ISSUE_START, IMPLEMENTATION, QUALITY_CHECK, PR_CREATION, COMPLETION>>

\* the n-th phase of the default progression, completion from the fifth on
DefaultPhase(n) ==
    IF n > Len(DefaultSequence) THEN COMPLETION ELSE DefaultSequence[n]

(* C7: after start, complete calls without nextPhase, whatever their status and
   files, take currentPhase through issue_start, implementation, quality_check,
   pr_creation, completion; every further complete of completion succeeds and
   leaves currentPhase = completion. *)
C7_DefaultProgression ==
    (/\ currentWorkflow # null
     /\ \A i \in 1..Len(currentWorkflow.phaseHistory) :
           currentWorkflow.phaseHistory[i].nextPhase = undefined)
    => /\ \A i \in 1..Len(currentWorkflow.phaseHistory) :
             /\ currentWorkflow.phaseHistory[i].phaseName = DefaultPhase(i)
             /\ PhaseAfter(i) = DefaultPhase(i + 1)
       /\ currentWorkflow.currentPhase = DefaultPhase(Len(currentWorkflow.phaseHistory) + 1)
       /\ lastCall.op = "completePhase" => lastCall.error = NoError

\* completion was completed twice, after a failed phase and a phase with files
C7_Witness ==
    /\ currentWorkflow # null
    /\ Len(currentWorkflow.phaseHistory) = 6
    /\ currentWorkflow.phaseHistory[5].phaseName = COMPLETION
    /\ currentWorkflow.phaseHistory[6].phaseName = COMPLETION
    /\ currentWorkflow.currentPhase = COMPLETION
    /\ currentWorkflow.phaseHistory[2].status = "failed"
    /\ currentWorkflow.phaseHistory[3].status = "skipped"
    /\ currentWorkflow.phaseHistory[3].workingFiles # <<>>
    /\ lastCall.op = "completePhase"
    /\ lastCall.error = NoError

\* the completions of pr_creation that asked for fix
FixRequests ==
    {i \in 1..Len(currentWorkflow.phaseHistory) :
        /\ currentWorkflow.phaseHistory[i].phaseName = PR_CREATION
        /\ currentWorkflow.phaseHistory[i].nextPhase = FIX}

(* C8: whenever pr_creation is completed with nextPhase = fix, currentPhase
   becomes fix, and the following completion of fix without nextPhase makes
   currentPhase quality_check, on every pass through pr_creation. *)
C8_FixLoopRoundTrip ==
    currentWorkflow # null =>
        \A i \in FixRequests :
            /\ PhaseAfter(i) = FIX
            /\ (/\ i < Len(currentWorkflow.phaseHistory)
                /\ currentWorkflow.phaseHistory[i + 1].nextPhase = undefined)
               => /\ currentWorkflow.phaseHistory[i + 1].phaseName = FIX
                  /\ PhaseAfter(i + 1) = QUALITY_CHECK

\* the loop was gone through twice, and the workflow is in quality_check again
C8_Witness ==
    /\ currentWorkflow # null
    /\ Cardinality(FixRequests) = 2
    /\ \A i \in FixRequests :
          /\ i < Len(currentWorkflow.phaseHistory)
          /\ currentWorkflow.phaseHistory[i + 1].nextPhase = undefined
          /\ PhaseAfter(i + 1) = QUALITY_CHECK
    /\ currentWorkflow.currentPhase = QUALITY_CHECK
    /\ Len(currentWorkflow.phaseHistory) = 8

\* the workingFiles lists of the history entries, one after the other
RECURSIVE SuppliedFiles(_)
SuppliedFiles(history) ==
    IF history = <<>> THEN <<>>
    ELSE Head(history).workingFiles \o SuppliedFiles(Tail(history))

\* where x is first seen in xs
FirstSeen(xs, x) == CHOOSE i \in 1..Len(xs) : xs[i] = x /\ \A j \in 1..(i - 1) : xs[j] # x

(* C9: with a workflow active, workingFiles has no duplicate and holds exactly
   the paths supplied in the phaseHistory entries, in the order in which each
   was first supplied. *)
C9_WorkingFilesFirstSeenUnion ==
    currentWorkflow # null =>
        LET files == currentWorkflow.workingFiles
            supplied == SuppliedFiles(currentWorkflow.phaseHistory)
        IN /\ \A i, j \in 1..Len(files) : i # j => files[i] # files[j]
           /\ {files[i] : i \in 1..Len(files)} = {supplied[k] : k \in 1..Len(supplied)}
           /\ \A i, j \in 1..Len(files) :
                 i < j => FirstSeen(supplied, files[i]) < FirstSeen(supplied, files[j])

\* issue_start completed with [a.ts], then implementation with [b.ts, a.ts]
C9_Witness ==
    /\ currentWorkflow # null
    /\ Len(currentWorkflow.phaseHistory) = 2
    /\ currentWorkflow.phaseHistory[1].workingFiles = <<"a.ts">>
    /\ currentWorkflow.phaseHistory[2].workingFiles = <<"b.ts", "a.ts">>
    /\ currentWorkflow.workingFiles = <<"a.ts", "b.ts">>

(* C10: while a workflow exists, phaseHistory is append-only: a successful
   complete appends exactly one element, whose phaseName is the currentPhase
   the call found, and no other step changes the history. *)
C10_HistoryAppendOnly ==
    [][(currentWorkflow # null /\ currentWorkflow' # null) =>
          LET before == currentWorkflow.phaseHistory
              after == currentWorkflow'.phaseHistory
          IN IF CompleteCalled /\ lastCall'.error = NoError
             THEN /\ Len(after) = Len(before) + 1
                  /\ SubSeq(after, 1, Len(before)) = before
                  /\ after[Len(after)].phaseName = currentWorkflow.currentPhase
             ELSE after = before]_vars

\* two completions are in the history, in the order they were made
C10_Witness ==
    /\ currentWorkflow # null
    /\ lastCall.op = "completePhase"
    /\ lastCall.error = NoError
    /\ Len(currentWorkflow.phaseHistory) = 2
    /\ currentWorkflow.phaseHistory[1].phaseName = ISSUE_START
    /\ currentWorkflow.phaseHistory[2].phaseName = IMPLEMENTATION
    /\ currentWorkflow.currentPhase = QUALITY_CHECK

(* C11: a start succeeds exactly when no workflow is active and the issue
   number is a non-empty string; it then creates the WorkflowState with that
   issue number, currentPhase = issue_start, no working files, no history and
   startedAt = updatedAt = the instant of the call. *)
C11_StartCreatesInitialState ==
    [][\A issueNumber \in IssueNumbers :
          StartWorkflow(issueNumber) =>
              /\ lastCall'.error = NoError
                    <=> (currentWorkflow = null /\ issueNumber \notin {"", undefined})
              /\ lastCall'.error = NoError =>
                    currentWorkflow' = [issueNumber |-> issueNumber,
                                        currentPhase |-> ISSUE_START,
                                        workingFiles |-> <<>>,
                                        phaseHistory |-> <<>>,
                                        startedAt |-> clock,
                                        updatedAt |-> clock]]_vars

\* a workflow for issue 43 was started after time had passed
C11_Witness ==
    /\ lastCall.op = "startWorkflow"
    /\ lastCall.error = NoError
    /\ currentWorkflow # null
    /\ currentWorkflow.issueNumber = "43"
    /\ currentWorkflow.phaseHistory = <<>>
    /\ currentWorkflow.startedAt = 1
    /\ currentWorkflow.updatedAt = 1

(* C12: invalid input is rejected and changes nothing: a start with an empty or
   missing issue number fails and no workflow becomes active; a complete with
   a field outside its enumeration, a required field missing or a completedAt
   that is no timestamp fails, with the validation error when a workflow is
   active, and leaves the workflow as it was. *)
C12_InvalidInputRejected ==
    [][/\ \A issueNumber \in {"", undefined} :
             StartWorkflow(issueNumber) =>
                 /\ lastCall'.error # NoError
                 /\ currentWorkflow' = currentWorkflow
                 /\ currentWorkflow = null => lastCall'.error = ZodError
       /\ \A phaseResult \in InvalidResults :
             CompletePhase(phaseResult) =>
                 /\ lastCall'.error # NoError
                 /\ currentWorkflow' = currentWorkflow
                 /\ currentWorkflow # null => lastCall'.error = ZodError]_vars

\* an invalid result was rejected while a workflow with a history was active
C12_Witness ==
    /\ lastCall.op = "completePhase"
    /\ lastCall.error = ZodError
    /\ currentWorkflow # null
    /\ Len(currentWorkflow.phaseHistory) = 1

(* C13: status() reports hasActiveWorkflow exactly when a workflow exists; when
   one is active its issue number and current phase, completedPhases = length
   of phaseHistory and workingFilesCount = length of workingFiles; when none
   is active both counts are 0; totalPhases is always 6. *)
C13_StatusReportsWorkflow ==
    lastCall.op = "getWorkflowStatus" =>
        LET status == lastCall.response
        IN /\ status.hasActiveWorkflow = (currentWorkflow # null)
           /\ status.totalPhases = 6
           /\ currentWorkflow # null =>
                 /\ status.issueNumber = currentWorkflow.issueNumber
                 /\ status.currentPhase = currentWorkflow.currentPhase
                 /\ status.completedPhases = Len(currentWorkflow.phaseHistory)
                 /\ status.workingFilesCount = Len(currentWorkflow.workingFiles)
           /\ currentWorkflow = null =>
                 /\ status.completedPhases = 0
                 /\ status.workingFilesCount = 0

\* status() after start("42") and one completion of issue_start, with one file
C13_Witness ==
    /\ lastCall.op = "getWorkflowStatus"
    /\ lastCall.response.hasActiveWorkflow
    /\ lastCall.response.issueNumber = "42"
    /\ lastCall.response.completedPhases = 1
    /\ lastCall.response.currentPhase = IMPLEMENTATION
    /\ lastCall.response.workingFilesCount = 1

(* C14: canTransitionTo(target) returns true exactly when no workflow is active
   and target = issue_start, or a workflow is active and target is in the
   Transition Table entry of its current phase. *)
C14_CanTransitionTo ==
    lastCall.op = "canTransitionTo" =>
        lastCall.response.value =
            IF currentWorkflow = null
            THEN lastCall.response.targetPhase = ISSUE_START
            ELSE lastCall.response.targetPhase
                    \in TransitionTable(currentWorkflow.currentPhase)

\* in pr_creation, completion can be entered
C14_Witness ==
    /\ lastCall.op = "canTransitionTo"
    /\ lastCall.response.value
    /\ lastCall.response.targetPhase = COMPLETION
    /\ currentWorkflow # null
    /\ currentWorkflow.currentPhase = PR_CREATION

\* the pairs section 4.2 allows
ValidPairs ==
    {<<ISSUE_START, IMPLEMENTATION>>, <<IMPLEMENTATION, QUALITY_CHECK>>,
     <<QUALITY_CHECK, PR_CREATION>>, <<PR_CREATION, FIX>>,
     <<PR_CREATION, COMPLETION>>, <<FIX, QUALITY_CHECK>>}

(* C15: for all 36 pairs (from, to) of the six phases, isValidTransition(from,
   to) returns true exactly for the six pairs of the Transition Table and
   false for every other pair. *)
C15_ValidTransitionPairs ==
    (/\ lastCall.op = "isValidPhaseTransition"
     /\ lastCall.response.from \in Phases
     /\ lastCall.response.to \in Phases)
    => /\ lastCall.error = NoError
       /\ lastCall.response.value
             = (<<lastCall.response.from, lastCall.response.to>> \in ValidPairs)

\* pr_creation to completion was found valid
C15_Witness ==
    /\ lastCall.op = "isValidPhaseTransition"
    /\ lastCall.response.from = PR_CREATION
    /\ lastCall.response.to = COMPLETION
    /\ lastCall.response.value
    /\ lastCall.error = NoError

(* C16: isValidTransition(from, to) returns false and does not throw whenever
   from or to is a string that is not one of the six phases, names inherited
   by every object included; getValidNextPhases of such a string returns the
   empty list. *)
C16_UnknownPhasesAreInvalid ==
    /\ (/\ lastCall.op = "isValidPhaseTransition"
        /\ (lastCall.response.from \notin Phases \/ lastCall.response.to \notin Phases))
       => /\ lastCall.error = NoError
          /\ lastCall.response.value = FALSE
    /\ (/\ lastCall.op = "getValidNextPhases"
        /\ lastCall.response.currentPhase \notin Phases)
       => lastCall.response.value = [type |-> "array", items |-> <<>>]

(* C17: reset never fails and leaves no workflow active, whatever the state it
   is called in; right after it status() reports no active workflow, complete
   fails with NoActiveWorkflow and a start with a non-empty issue number
   succeeds. *)
C17_ResetAlwaysClears ==
    [][/\ lastCall'.op = "resetWorkflow" =>
             /\ lastCall'.error = NoError
             /\ currentWorkflow' = null
       /\ lastCall.op = "resetWorkflow" =>
             /\ lastCall'.op = "getWorkflowStatus" =>
                   /\ ~lastCall'.response.hasActiveWorkflow
                   /\ lastCall'.response.completedPhases = 0
             /\ lastCall'.op = "completePhase" =>
                   /\ lastCall'.error = NoActiveWorkflowError
                   /\ currentWorkflow' = null
             /\ StartWorkflow("42") =>
                   /\ lastCall'.error = NoError
                   /\ currentWorkflow' # null
                   /\ currentWorkflow'.issueNumber = "42"
                   /\ currentWorkflow'.phaseHistory = <<>>]_vars

\* the last call was a reset, and no workflow is active
C17_Witness ==
    /\ lastCall.op = "resetWorkflow"
    /\ lastCall.error = NoError
    /\ currentWorkflow = null

(* C18: a successful complete_phase returns the terminal summary exactly when
   the phase the workflow moved to is completion and the result's status is
   completed; in every other successful case it returns the transition
   response with the guidance document of the new current phase. *)
C18_SummaryIffCompleted ==
    [][(lastCall'.op = "complete_phase" /\ lastCall'.error = NoError) =>
          \* the result of a successful call is the last element of the history
          LET phaseResult ==
                  currentWorkflow'.phaseHistory[Len(currentWorkflow'.phaseHistory)]
          IN IF /\ currentWorkflow'.currentPhase = COMPLETION
                /\ phaseResult.status = "completed"
             THEN lastCall'.response[1] = "Workflow Completed Successfully!"
             ELSE /\ Len(lastCall'.response) = 8
                  /\ lastCall'.response[1] = "Phase Completed: "
                  /\ lastCall'.response[2] = phaseResult.phaseName
                  /\ lastCall'.response[5] = "Current Phase: "
                  /\ lastCall'.response[6] = currentWorkflow'.currentPhase]_vars

\* pr_creation was reported as skipped: the workflow is in completion and the
\* guidance document of completion was returned, not the summary
C18_Witness ==
    /\ lastCall.op = "complete_phase"
    /\ lastCall.error = NoError
    /\ Len(lastCall.response) = 8
    /\ lastCall.response[6] = COMPLETION
    /\ currentWorkflow # null
    /\ currentWorkflow.currentPhase = COMPLETION
    /\ currentWorkflow.phaseHistory[Len(currentWorkflow.phaseHistory)].status = "skipped"

(* C19: get_current_phase and get_workflow_status never fail; with no active
   workflow, before any start and after a reset, each resolves with its
   no-active-workflow message; with a workflow active get_current_phase
   returns the guidance document of the current phase. *)
C19_ReadsResolveWithoutWorkflow ==
    /\ lastCall.op = "get_current_phase" =>
          /\ lastCall.error = NoError
          /\ IF currentWorkflow = null
             THEN lastCall.response =
                    <<"No active workflow. Use start_issue_workflow to begin a new workflow.">>
             ELSE /\ lastCall.response[1] = "Current Phase: "
                  /\ lastCall.response[2] = currentWorkflow.currentPhase
    /\ lastCall.op = "get_workflow_status" =>
          /\ lastCall.error = NoError
          /\ (lastCall.response[1] = "No Active Workflow") <=> (currentWorkflow = null)

\* get_current_phase was called after a workflow was started, moved on and reset
C19_Witness ==
    /\ lastCall.op = "get_current_phase"
    /\ lastCall.error = NoError
    /\ currentWorkflow = null
    /\ sequenceNumber = 7

(* C20: when start_issue_workflow or complete_phase fails, the call is rejected
   with the error that was thrown (validation, AlreadyActive, NoActiveWorkflow
   or PhaseMismatch) and at least one error-level entry is written to the
   log during the call, whatever the configured minimum level. *)
C20_SurfacedErrorsAreLogged ==
    (/\ lastCall.op \in {"start_issue_workflow", "complete_phase"}
     /\ lastCall.error # NoError)
    => /\ \E i \in 1..Len(lastCall.entries) : lastCall.entries[i] = "error"
       /\ lastCall.error[1] \in {"ZodError",
                                 "Workflow already in progress for issue ",
                                 "No active workflow to complete phase for",
                                 "Phase mismatch: attempting to complete "}

\* a phase mismatch was rejected under the least verbose level, and logged
C20_Witness ==
    /\ lastCall.op = "complete_phase"
    /\ Len(lastCall.error) = 4
    /\ logLevel = "error"
    /\ lastCall.entries = <<"error">>

(* C21: every state mutation is paired with a log entry: during each
   successful start, complete and reset the logger's sequence counter grows,
   whatever the logger's configuration. *)
C21_MutationsAreLogged ==
    [][(/\ lastCall'.op \in {"startWorkflow", "completePhase", "resetWorkflow"}
        /\ clock' = clock
        /\ lastCall'.error = NoError)
       => sequenceNumber' > sequenceNumber]_vars

\* the entry points of the logger, and the position of a level in the order
\* debug < info < warn < error
LoggerOps == {"log", "debug", "info", "warn", "error", "logProtocol", "logWorkflow"}

Rank == [debug |-> 0, info |-> 1, warn |-> 2, error |-> 3]

\* this step is a call of one of the logger's entry points
LoggerCalled ==
    /\ lastCall'.op \in LoggerOps
    /\ (lastCall' # lastCall \/ sequenceNumber' # sequenceNumber)

\* what the durable sink has accepted and not lost, in file order: the lines
\* in the file, then the lines the stream still holds
Durable == logFile \o writeStream.buffer

(* C22: an emit whose level is below the configured minimum changes nothing:
   the sequence counter, the console and the durable sink (file and stream)
   stay as they are; the named entry points emit at the level of their name,
   the protocol and workflow forms at info. *)
C22_FilteredEmitIsNoOp ==
    [][LoggerCalled =>
          /\ lastCall'.op \in {"debug", "info", "warn", "error"}
                => lastCall'.response = <<lastCall'.op>>
          /\ lastCall'.op \in {"logProtocol", "logWorkflow"}
                => lastCall'.response = <<"info">>
          /\ Rank[lastCall'.response[1]] < Rank[logLevel]
                => UNCHANGED <<sequenceNumber, console, writeStream, logFile,
                               logStream, fileOutput>>]_vars

\* after one entry reached both sinks, a protocol message was filtered out
\* under minimum level warn
C22_Witness ==
    /\ lastCall.op = "logProtocol"
    /\ lastCall.entries = <<>>
    /\ logLevel = "warn"
    /\ sequenceNumber = 1
    /\ Len(console) = 1
    /\ Len(Durable) = 1

(* C23: the k-th emitted entry carries sequenceNumber k, counting from 0: on
   the console and in the durable sink the entries are numbered 0, 1, 2, ...
   without gap or repetition, and the counter is the number of entries emitted
   so far. *)
C23_SequenceNumbersCountEmitted ==
    /\ \A k \in DOMAIN console : console[k].sequenceNumber = k - 1
    /\ \A k \in DOMAIN Durable : Durable[k].json.sequenceNumber = k - 1
    /\ consoleOutput => Len(console) = sequenceNumber
    /\ (fileOutput /\ logStream # undefined /\ writeStream.state = "open")
          => Len(Durable) = sequenceNumber

\* minimum level warn: the file holds exactly two entries, a warn numbered 0
\* and an error numbered 1
C23_Witness ==
    /\ logLevel = "warn"
    /\ lastCall.op = "error"
    /\ sequenceNumber = 2
    /\ Len(logFile) = 2
    /\ logFile[1].json.level = "warn" /\ logFile[1].json.sequenceNumber = 0
    /\ logFile[2].json.level = "error" /\ logFile[2].json.sequenceNumber = 1
    /\ writeStream.buffer = <<>>

(* C24: the durable sink keeps call order: the file only grows at its end, the
   sequenceNumbers of the lines in the file and of those the stream still
   holds are strictly increasing, every line ends with a newline, and a call
   made while durable output is enabled and the stream is open adds exactly
   one line per entry it emits, after all earlier lines. *)
C24_DurableOrderIsCallOrder ==
    [][/\ Len(logFile') >= Len(logFile)
       /\ SubSeq(logFile', 1, Len(logFile)) = logFile
       /\ LET after == logFile' \o writeStream'.buffer
          IN /\ \A i, j \in DOMAIN after :
                    i < j => after[i].json.sequenceNumber < after[j].json.sequenceNumber
             /\ \A i \in DOMAIN after : after[i].end = "\n"
             /\ (/\ sequenceNumber' > sequenceNumber
                 /\ fileOutput /\ logStream # undefined
                 /\ writeStream.state = "open")
                   => /\ Len(after) = Len(Durable) + (sequenceNumber' - sequenceNumber)
                      /\ SubSeq(after, 1, Len(Durable)) = Durable
                      /\ \A k \in (Len(Durable) + 1)..Len(after) :
                            after[k].json.sequenceNumber
                               = sequenceNumber + (k - Len(Durable) - 1)]_vars

\* two lines are in the file and a third, emitted later, waits in the stream
C24_Witness ==
    /\ Len(logFile) = 2
    /\ Len(writeStream.buffer) = 1
    /\ writeStream.state = "open"
    /\ sequenceNumber = 3

(* C25: when close() has returned, and when the process has exited after it,
   no line the stream had accepted is still waiting to be written. *)
C25_CloseFlushes ==
    /\ lastCall.op = "close" => writeStream.buffer = <<>>
    /\ writeStream.state = "exited" => writeStream.buffer = <<>>

(* C26: close() never raises; it leaves the counter, the configuration, the
   console and the file alone and the logger without a stream; called on a
   logger that has no stream (file output off, failed, or closed before) it
   changes nothing at all. *)
C26_CloseIsIdempotent ==
    [][(/\ lastCall'.op = "close"
        /\ (lastCall' # lastCall \/ logStream' # logStream))
       => /\ lastCall'.error = NoError
          /\ logStream' = undefined
          /\ UNCHANGED <<sequenceNumber, logLevel, consoleOutput, fileOutput,
                         console, logFile>>
          /\ logStream = undefined => writeStream' = writeStream]_vars

\* the stream was closed and has finished, an entry was emitted afterwards
\* (it is on the console only), and close() was called again
C26_Witness ==
    /\ lastCall.op = "close"
    /\ lastCall.error = NoError
    /\ writeStream.state = "closed"
    /\ logStream = undefined
    /\ consoleOutput
    /\ Len(console) > Len(logFile)

\* the logger has no usable durable sink: none was opened, or it failed
SinkBroken == writeStream.state \in {"none", "failed", "destroyed"}

(* C27: a logger whose durable sink could not be opened or has failed never
   raises, writes nothing more to the file, has durable output disabled for
   good once the failure is reported, and goes on numbering its entries
   consecutively and writing them to the console. *)
C27_SinkFailureIsContained ==
    [][/\ SinkBroken
          => /\ logFile' = logFile
             /\ writeStream'.buffer = <<>>
             /\ writeStream'.state \in {"none", "failed", "destroyed", "exited"}
       /\ (writeStream.state = "failed" /\ writeStream'.state = "destroyed")
          => ~fileOutput' /\ logStream' = undefined
       /\ ~fileOutput => ~fileOutput'
       /\ LoggerCalled => lastCall'.error = NoError
       /\ (LoggerCalled /\ SinkBroken)
          => /\ sequenceNumber' = sequenceNumber + Len(lastCall'.entries)
             /\ consoleOutput
                   => /\ Len(console') = Len(console) + Len(lastCall'.entries)
                      /\ SubSeq(console', 1, Len(console)) = console
                      /\ \A k \in (Len(console) + 1)..Len(console') :
                            console'[k].sequenceNumber
                               = sequenceNumber + (k - Len(console) - 1)]_vars

\* the stream failed after one line was written; the failure was reported, and
\* two more entries went to the console
C27_Witness ==
    /\ writeStream.state = "destroyed"
    /\ ~fileOutput
    /\ logStream = undefined
    /\ Len(logFile) = 1
    /\ consoleOutput
    /\ Len(console) = 3
    /\ console[3].sequenceNumber = 2
    /\ lastCall.op = "warn"
    /\ lastCall.error = NoError

\* the protocol entries of the log, in file order
ProtocolEntries ==
    SelectSeq([i \in DOMAIN Durable |-> Durable[i].json],
              LAMBDA entry : entry.kind = "protocol")

(* C28: the log holds complete request/response pairs: once a handler has
   run, every request entry is directly followed, among the protocol entries,
   by the response entry of the same method. *)
C28_RequestsHaveResponses ==
    \A i \in DOMAIN ProtocolEntries :
        ProtocolEntries[i].protocol.type = "request"
           => /\ i < Len(ProtocolEntries)
              /\ ProtocolEntries[i + 1].protocol.type = "response"
              /\ ProtocolEntries[i + 1].protocol.method
                    = ProtocolEntries[i].protocol.method

(* C29: malformed input is reported as the validation error before the
   workflow state is consulted: start with an empty issue number and complete
   with a schema-invalid PhaseResult fail with the validation error whether or
   not a workflow is active. *)
C29_ValidationBeforeState ==
    [][/\ StartWorkflow("") => lastCall'.error = ZodError
       /\ \A phaseResult \in InvalidResults :
             CompletePhase(phaseResult) => lastCall'.error = ZodError]_vars

(* C30: completion is absorbing: with currentPhase = completion every complete
   of completion succeeds, appends its result to phaseHistory and leaves
   currentPhase = completion, whatever nextPhase it carries; while the
   workflow exists its phase stays completion. *)
C30_CompletionIsAbsorbing ==
    [][(currentWorkflow # null /\ currentWorkflow.currentPhase = COMPLETION) =>
          /\ \A phaseResult \in OverrideResults :
                CompletePhase(phaseResult) =>
                    /\ lastCall'.error = NoError
                    /\ currentWorkflow'.phaseHistory
                          = Append(currentWorkflow.phaseHistory, phaseResult)
                    /\ currentWorkflow'.currentPhase = COMPLETION
          /\ currentWorkflow' # null
                => currentWorkflow'.currentPhase = COMPLETION]_vars

\* completion was completed with nextPhase = issue_start, and the workflow is
\* still in completion
C30_Witness ==
    /\ currentWorkflow # null
    /\ currentWorkflow.currentPhase = COMPLETION
    /\ Len(currentWorkflow.phaseHistory) = 5
    /\ currentWorkflow.phaseHistory[5].phaseName = COMPLETION
    /\ currentWorkflow.phaseHistory[5].nextPhase = ISSUE_START
    /\ lastCall.op = "completePhase"
    /\ lastCall.error = NoError

(* C31: currentPhase becomes fix only by a successful complete of pr_creation
   whose result carries nextPhase = fix; and the phase a complete leads to is
   the same for the three values of status. *)
C31_FixOnlyByOverride ==
    [][/\ (/\ currentWorkflow' # currentWorkflow
           /\ currentWorkflow' # null
           /\ currentWorkflow'.currentPhase = FIX)
          => /\ lastCall'.op = "completePhase"
             /\ lastCall'.error = NoError
             /\ currentWorkflow # null
             /\ currentWorkflow.currentPhase = PR_CREATION
             /\ LET history == currentWorkflow'.phaseHistory
                IN /\ Len(history) = Len(currentWorkflow.phaseHistory) + 1
                   /\ history[Len(history)].phaseName = PR_CREATION
                   /\ history[Len(history)].nextPhase = FIX
       /\ (CompleteCalled /\ lastCall'.error = NoError)
          => LET history == currentWorkflow'.phaseHistory
                 phaseResult == history[Len(history)]
             IN \A status \in Statuses :
                   determineNextPhase(currentWorkflow,
                                      [phaseResult EXCEPT !.status = status])
                      = currentWorkflow'.currentPhase]_vars

\* a pr_creation reported as failed, with nextPhase = fix, led to fix
C31_Witness ==
    /\ currentWorkflow # null
    /\ currentWorkflow.currentPhase = FIX
    /\ Len(currentWorkflow.phaseHistory) = 4
    /\ currentWorkflow.phaseHistory[4].phaseName = PR_CREATION
    /\ currentWorkflow.phaseHistory[4].status = "failed"
    /\ currentWorkflow.phaseHistory[4].nextPhase = FIX
    /\ lastCall.op = "completePhase"

(* C32: lifecycle frame: a workflow appears only by a successful
   startWorkflow and disappears only by resetWorkflow; while it exists its
   issueNumber and startedAt stay the same and only a successful
   completePhase changes it; a call that fails changes nothing. *)
C32_LifecycleFrame ==
    [][/\ (currentWorkflow = null /\ currentWorkflow' # null)
          => lastCall'.op = "startWorkflow" /\ lastCall'.error = NoError
       /\ (currentWorkflow # null /\ currentWorkflow' = null)
          => lastCall'.op = "resetWorkflow"
       /\ (currentWorkflow # null /\ currentWorkflow' # null)
          => /\ currentWorkflow'.issueNumber = currentWorkflow.issueNumber
             /\ currentWorkflow'.startedAt = currentWorkflow.startedAt
             /\ currentWorkflow' # currentWorkflow
                   => lastCall'.op = "completePhase" /\ lastCall'.error = NoError
       /\ (clock' = clock /\ lastCall'.error # NoError)
          => currentWorkflow' = currentWorkflow]_vars

\* a workflow started at time 0 was changed by a complete at time 1
C32_Witness ==
    /\ currentWorkflow # null
    /\ currentWorkflow.startedAt = 0
    /\ currentWorkflow.updatedAt = 1
    /\ Len(currentWorkflow.phaseHistory) = 1
    /\ lastCall.op = "completePhase"
    /\ lastCall.error = NoError

(* C33: with a clock that does not go backwards, updatedAt of one workflow
   never decreases from one state to the next, and startedAt <= updatedAt in
   every state that has a workflow. *)
C33_UpdatedAtMonotonic ==
    [][/\ currentWorkflow' # null
          => currentWorkflow'.startedAt <= currentWorkflow'.updatedAt
       /\ (currentWorkflow # null /\ currentWorkflow' # null)
          => currentWorkflow'.updatedAt >= currentWorkflow.updatedAt]_vars

\* two completes, the second after the clock advanced past the start
C33_Witness ==
    /\ currentWorkflow # null
    /\ Len(currentWorkflow.phaseHistory) = 2
    /\ currentWorkflow.startedAt = 0
    /\ currentWorkflow.updatedAt = 1
    /\ clock = 1

\* the manager's methods that only read
ReadOps ==
    {"getCurrentPhaseInstruction", "getWorkflowStatus", "getCurrentWorkflow",
     "canTransitionTo"}

(* C34: getCurrentPhaseInstruction, getWorkflowStatus, getCurrentWorkflow and
   canTransitionTo return without error, leave the workflow as it is and
   write no log entry; getCurrentPhaseInstruction returns the catalog entry
   of currentPhase when there is a workflow and null when there is none. *)
C34_ReadsAreSideEffectFree ==
    [][lastCall'.op \in ReadOps =>
          /\ lastCall'.error = NoError
          /\ lastCall'.entries = <<>>
          /\ UNCHANGED <<currentWorkflow, sequenceNumber, clock, logLevel>>
          /\ UNCHANGED sinks
          /\ lastCall'.op = "getCurrentPhaseInstruction"
                => lastCall'.response.value
                      = IF currentWorkflow = null THEN null
                        ELSE phaseDefinitions[currentWorkflow.currentPhase]
          /\ lastCall'.op = "getCurrentWorkflow"
                => lastCall'.response.value = currentWorkflow]_vars

\* under a logger that lets everything pass, the instruction of
\* quality_check was read after six entries had been written
C34_Witness ==
    /\ lastCall.op = "getCurrentPhaseInstruction"
    /\ logLevel = "debug"
    /\ sequenceNumber = 6
    /\ currentWorkflow # null
    /\ currentWorkflow.currentPhase = QUALITY_CHECK
    /\ lastCall.response.value = [phaseName |-> QUALITY_CHECK]

\* both requests have been through their handler
BothRan == \A c \in Calls : inFlight[c].pc \in {"awaiting", "done"}

(* C35: overlapping tool calls are serialized: when two requests handed over
   together have both been through their handler, the manager's state and the
   two outcomes are those of running the two calls one after the other in
   some order; and of two overlapping complete_phase calls with the same
   result for a phase other than completion exactly one succeeds, with one
   more history entry. *)
C35_OverlappingCallsSerialize ==
    BothRan =>
       /\ \E c1 \in Calls : \E c2 \in Calls \ {c1} :
             LET first == inFlight[c1]
                 second == inFlight[c2]
                 r1 == callTool(first.name, first.before, first.args, clock)
                 r2 == callTool(second.name, r1.workflow, second.args, clock)
             IN /\ r1.error = first.error
                /\ r1.response = first.response
                /\ r2.error = second.error
                /\ r2.response = second.response
                /\ currentWorkflow = r2.workflow
       /\ (/\ \A c \in Calls : inFlight[c].name = "complete_phase"
           /\ inFlight["A"].args = inFlight["B"].args
           /\ inFlight["A"].args.phaseResult.phaseName # COMPLETION
           /\ \E c \in Calls : inFlight[c].error = NoError)
          => \E c1 \in Calls : \E c2 \in Calls \ {c1} :
                /\ inFlight[c1].error = NoError
                /\ inFlight[c2].error # NoError
                /\ inFlight[c2].error[2] = "InternalError"
                /\ Len(currentWorkflow.phaseHistory)
                      = Len(inFlight[c1].before.phaseHistory) + 1

\* two complete_phase calls for implementation are both waiting at their
\* await: A's handler succeeded, B's was rejected with the phase mismatch
C35_Witness ==
    /\ \A c \in Calls : inFlight[c].pc = "awaiting"
    /\ \A c \in Calls : inFlight[c].name = "complete_phase"
    /\ inFlight["A"].args = inFlight["B"].args
    /\ inFlight["A"].args.phaseResult.phaseName = IMPLEMENTATION
    /\ inFlight["A"].error = NoError
    /\ Len(inFlight["B"].error) = 6
    /\ currentWorkflow.currentPhase = QUALITY_CHECK
    /\ Len(currentWorkflow.phaseHistory) = 2

(* C36: completedPhases is the number of successful completes since the
   start: a start sets the history to empty, each successful complete adds
   one entry, a failed one none, and both status calls report the length of
   the history next to totalPhases = 6, whatever the two numbers are. *)
C36_CompletedPhasesCountsCompletes ==
    [][/\ (lastCall'.op = "startWorkflow" /\ lastCall'.error = NoError)
          => currentWorkflow'.phaseHistory = <<>>
       /\ (lastCall'.op = "completePhase" /\ lastCall'.error = NoError)
          => Len(currentWorkflow'.phaseHistory) = HistoryLen + 1
       /\ (lastCall'.op = "completePhase" /\ lastCall'.error # NoError)
          => currentWorkflow' = currentWorkflow
       /\ lastCall'.op = "getWorkflowStatus"
          => /\ lastCall'.response.completedPhases = HistoryLen
             /\ lastCall'.response.totalPhases = 6
       /\ (lastCall'.op = "get_workflow_status" /\ currentWorkflow # null)
          => /\ lastCall'.response[6] = "Progress: "
             /\ lastCall'.response[7] = HistoryLen
             /\ lastCall'.response[8] = 6]_vars

\* after one round through fix the workflow is in completion and the status
\* tool reports 7 of 6 phases
C36_Witness ==
    /\ lastCall.op = "get_workflow_status"
    /\ currentWorkflow # null
    /\ currentWorkflow.currentPhase = COMPLETION
    /\ Len(currentWorkflow.phaseHistory) = 7
    /\ currentWorkflow.phaseHistory[5].phaseName = FIX
    /\ lastCall.response[7] = 7
    /\ lastCall.response[8] = 6

\* the info entries a call writes when it makes n info calls
InfoEntries(n) ==
    IF Rank[logLevel] <= Rank["info"] THEN [i \in 1..n |-> "info"] ELSE <<>>

(* C37: what the manager's calls log: a completePhase that fails logs
   nothing; a startWorkflow that fails has made one info call, a startWorkflow
   and a completePhase that succeed two, resetWorkflow one; each info call is
   one entry and one sequence number when the logger lets info pass, and
   nothing otherwise. *)
C37_ManagerLogCounts ==
    [][clock' = clock =>
          LET calls ==
                  CASE lastCall'.op = "completePhase" /\ lastCall'.error # NoError -> 0
                    [] lastCall'.op = "completePhase" /\ lastCall'.error = NoError -> 2
                    [] lastCall'.op = "startWorkflow" /\ lastCall'.error # NoError -> 1
                    [] lastCall'.op = "startWorkflow" /\ lastCall'.error = NoError -> 2
                    [] lastCall'.op = "resetWorkflow" -> 1
          IN /\ lastCall'.entries = InfoEntries(calls)
             /\ sequenceNumber' = sequenceNumber + Len(InfoEntries(calls))]_vars

\* with info enabled: a start was rejected because a workflow was active, and
\* the counter stands at three (two entries of the first start, one of this)
C37_Witness ==
    /\ logLevel = "info"
    /\ lastCall.op = "startWorkflow"
    /\ Len(lastCall.error) = 3
    /\ lastCall.entries = <<"info">>
    /\ sequenceNumber = 3
    /\ currentWorkflow # null

\* close() was called on the stream; the stream failed
AfterClose == writeStream.state \in {"ending", "closed"}

AfterFailure == writeStream.state \in {"failed", "destroyed"}

(* C38: after close() and after a failure of the stream, a call of the logger
   returns without error, numbers the entries it emits consecutively, writes
   them to the console when that is enabled, and adds nothing to the stream
   or the file (after close() and once the failure was reported it does not
   write to the stream at all); and the file is at all times a prefix,
   numbered 0, 1, 2, ... without gap, of the entries emitted. *)
C38_NoDurableWritesAfterClose ==
    [][/\ (LoggerCalled /\ (AfterClose \/ AfterFailure))
          => /\ lastCall'.error = NoError
             /\ sequenceNumber' = sequenceNumber + Len(lastCall'.entries)
             /\ Len(console') = Len(console)
                                  + (IF consoleOutput THEN Len(lastCall'.entries) ELSE 0)
             /\ SubSeq(console', 1, Len(console)) = console
             /\ \A k \in (Len(console) + 1)..Len(console') :
                   /\ console'[k].sequenceNumber
                         = sequenceNumber + (k - Len(console) - 1)
                   /\ console'[k].level = lastCall'.entries[k - Len(console)]
             /\ logFile' = logFile
             /\ writeStream' = writeStream
             /\ (AfterClose \/ writeStream.state = "destroyed")
                   => ~fileOutput \/ logStream = undefined
       /\ Len(logFile') <= sequenceNumber'
       /\ \A k \in DOMAIN logFile' : logFile'[k].json.sequenceNumber = k - 1]_vars

\* two entries are in the file, the stream was closed and has finished, and a
\* third entry, emitted afterwards, is on the console only
C38_Witness ==
    /\ writeStream.state = "closed"
    /\ logStream = undefined
    /\ fileOutput
    /\ lastCall.op = "info"
    /\ lastCall.entries = <<"info">>
    /\ consoleOutput
    /\ Len(console) = 3
    /\ console[3].sequenceNumber = 2
    /\ Len(logFile) = 2

\* the phases one successful complete of phase p can lead to, over every
\* nextPhase a result can carry
Step(p) ==
    {determineNextPhase([currentPhase |-> p],
                        [phaseName |-> p, nextPhase |-> n]) :
        n \in Phases \cup {undefined}}

\* the phases reachable from those of S by successful completes
RECURSIVE ReachableFrom(_)
ReachableFrom(S) ==
    LET next == S \cup UNION {Step(p) : p \in S}
    IN IF next = S THEN S ELSE ReachableFrom(next)

\* the last k entries of the history carry no nextPhase
NoOverrideIn(history, k) ==
    /\ Len(history) >= k
    /\ \A i \in (Len(history) - k + 1)..Len(history) : history[i].nextPhase = undefined

(* C39: from issue_start all six phases are reachable by successful
   completes; from the phase of every reachable workflow completion is
   reachable, and every phase but completion has a complete that leaves it;
   after four successful completes in a row without nextPhase the workflow is
   in completion; and a complete of pr_creation with nextPhase = fix leads to
   fix however long the history is. *)
C39_ReachabilityAndProgress ==
    [][/\ ReachableFrom({ISSUE_START}) = Phases
       /\ currentWorkflow' # null
          => /\ COMPLETION \in ReachableFrom({currentWorkflow'.currentPhase})
             /\ currentWorkflow'.currentPhase # COMPLETION
                   => Step(currentWorkflow'.currentPhase)
                         \ {currentWorkflow'.currentPhase} # {}
             /\ NoOverrideIn(currentWorkflow'.phaseHistory, 4)
                   => currentWorkflow'.currentPhase = COMPLETION
       /\ (/\ CompleteCalled
           /\ lastCall'.error = NoError
           /\ currentWorkflow.currentPhase = PR_CREATION
           /\ currentWorkflow'.phaseHistory[Len(currentWorkflow'.phaseHistory)].nextPhase
                 = FIX)
          => currentWorkflow'.currentPhase = FIX]_vars

\* after a round through fix, three completes without nextPhase (fix,
\* quality_check, pr_creation) have brought the workflow to completion
C39_Witness ==
    /\ currentWorkflow # null
    /\ currentWorkflow.currentPhase = COMPLETION
    /\ Len(currentWorkflow.phaseHistory) = 7
    /\ currentWorkflow.phaseHistory[4].nextPhase = FIX
    /\ currentWorkflow.phaseHistory[5].phaseName = FIX
    /\ NoOverrideIn(currentWorkflow.phaseHistory, 3)

\* console.error and console.warn write to standard error
StandardStream(stream) ==
    IF stream \in {"console.error", "console.warn"} THEN "stderr" ELSE "stdout"

(* C40: a logger with console output off writes nothing to the console,
   whatever the level of the call and whoever makes it; in the server's
   configuration (console off, file on) the entries emitted are in the
   stream or the file while the stream is open; with console output on,
   error and warn entries go to standard error and debug and info entries to
   standard output. *)
C40_ConsoleOffKeepsStdoutClean ==
    /\ ~consoleOutput => console = <<>>
    /\ (~consoleOutput /\ fileOutput /\ logStream # undefined
           /\ writeStream.state = "open")
          => Len(Durable) = sequenceNumber
    /\ \A k \in DOMAIN console :
          StandardStream(console[k].stream)
             = IF console[k].level \in {"error", "warn"} THEN "stderr" ELSE "stdout"

\* the server's configuration: after an info, a protocol and an error entry
\* the console is empty and the three entries are in the stream or the file
C40_Witness ==
    /\ ~consoleOutput
    /\ fileOutput
    /\ logLevel = "info"
    /\ writeStream.state = "open"
    /\ lastCall.op = "error"
    /\ sequenceNumber = 3
    /\ Len(Durable) = 3
    /\ Durable[2].json.kind = "protocol"
    /\ Durable[3].json.level = "error"
    /\ console = <<>>

====
